---- MODULE Spec2Model ----
(***************************************************************************)
(* x402 payment middleware: the framework-agnostic core (PaymentMiddleware,*)
(* AcquiredPayment, X402Error) and the Hono, Express and Next.js adapters  *)
(* that drive it.  Every request is a small state machine whose steps are  *)
(* the synchronous segments of the adapter's async function, cut at each   *)
(* await (verify, downstream handler, settle).                             *)
(***************************************************************************)
EXTENDS Integers, Sequences, FiniteSets, TLC

VARIABLES adapter, live, mw, req

vars == <<adapter, live, mw, req>>

\* ------------------------------------------------------------------ bounds
NumRequests == 2
MaxAccepts == 2
MaxSettleCalls == 2
\* Calls of paymentRequirements a caller makes on one instance.
MaxCalls == 2

Requests == 1..NumRequests

\* ------------------------------------------------------- program constants
X402_VERSION == 1

\* JavaScript `undefined`; as a string it is what a template literal prints.
Undefined == "undefined"

Adapters == {"hono", "express", "next", "withPayment"}
RoutedAdapters == {"hono", "express", "next"}
\* "direct" drives acquirePayment and settle itself; "construct" only builds a
\* PaymentMiddleware from a configuration of its own; "requirements" builds
\* one and calls its paymentRequirements, keeping the objects it gets back.
Callers == Adapters \cup {"direct", "construct", "requirements"}

\* ------------------------------------------------------------ value domains
Paths == {"/weather", "/free"}
Methods == {"GET", "post"}
XPaymentHeaders == {"", "encoded-p1", "garbage"}
AcceptHeaders == {"text/html", "*/*, text/html", "application/json"}
UserAgents == {"Mozilla/5.0", "curl/8"}

HttpRequests ==
    [path : Paths, method : Methods, xPayment : XPaymentHeaders,
     accept : AcceptHeaders, userAgent : UserAgents]

\* The requests that arrive while another request is in process: two paying
\* requests with different payloads for different routes, a browser without
\* payment and a client without payment.
ConcurrentRequests ==
    { [path |-> "/weather", method |-> "GET", xPayment |-> "encoded-p1",
       accept |-> "application/json", userAgent |-> "curl/8"],
      [path |-> "/weather", method |-> "post", xPayment |-> "encoded-p2",
       accept |-> "application/json", userAgent |-> "curl/8"],
      [path |-> "/weather", method |-> "GET", xPayment |-> "",
       accept |-> "text/html", userAgent |-> "Mozilla/5.0"],
      [path |-> "/weather", method |-> "GET", xPayment |-> "",
       accept |-> "application/json", userAgent |-> "curl/8"] }

NoRequest ==
    [path |-> "", method |-> "", xPayment |-> "", accept |-> "", userAgent |-> ""]

HandlerStatuses == {200, 399, 400, 500}

HandlerOutcomes ==
    [kind : {"returns"}, status : HandlerStatuses, headersSent : BOOLEAN]
      \cup {[kind |-> "throws", status |-> 0, headersSent |-> FALSE]}

\* What the payload extractor can do with a request.
ExtractorOutcomes ==
    {[kind |-> "absent", payload |-> Undefined, error |-> Undefined],
     [kind |-> "payload", payload |-> "p1", error |-> Undefined],
     [kind |-> "payload", payload |-> "p2", error |-> Undefined],
     [kind |-> "throws", payload |-> Undefined, error |-> "Invalid payment"]}

\* What the facilitator's verify can answer: a VerifyResponse or a rejection.
VerifyResponses ==
    {[kind |-> "resolve", isValid |-> TRUE, invalidReason |-> Undefined,
      payer |-> p, error |-> Undefined] : p \in {Undefined, "0xabc"}}
      \cup
    {[kind |-> "resolve", isValid |-> FALSE, invalidReason |-> ir,
      payer |-> p, error |-> Undefined] :
        ir \in {Undefined, "insufficient_funds"}, p \in {Undefined, "0xdef"}}
      \cup
    {[kind |-> "reject", isValid |-> FALSE, invalidReason |-> Undefined,
      payer |-> Undefined, error |-> "verify unreachable"]}

\* What the facilitator's settle can answer: a SettleResponse or a rejection.
SettleResponses ==
    {[kind |-> "resolve", success |-> TRUE, transaction |-> "0x123",
      network |-> "base-sepolia", payer |-> p, errorReason |-> Undefined,
      error |-> Undefined] : p \in {Undefined, "0xabc"}}
      \cup
    {[kind |-> "resolve", success |-> FALSE, transaction |-> "",
      network |-> "base-sepolia", payer |-> p, errorReason |-> er,
      error |-> Undefined] :
        er \in {Undefined, "insufficient_funds"}, p \in {Undefined, "0xabc"}}
      \cup
    {[kind |-> "reject", success |-> FALSE, transaction |-> "",
      network |-> "", payer |-> Undefined, errorReason |-> Undefined,
      error |-> "Settlement failed"]}

\* ------------------------------------------------------------------ errors
\* A thrown JavaScript value's `error` is either an Error object or a string.
ErrorObject(message) == [type |-> "Error", message |-> message]
ErrorString(message) == [type |-> "string", message |-> message]

\* String(error): an Error prints as "Error: <message>", a string as itself.
StringOf(error) ==
    IF error.type = "Error" THEN "Error: " \o error.message ELSE error.message

\* new X402Error(error, accepts, payer)
X402Error(error, accepts, payer) ==
    [name |-> "X402Error", x402Version |-> X402_VERSION,
     message |-> StringOf(error), error |-> error, accepts |-> accepts,
     payer |-> payer]

\* Any other thrown Error, as it travels through the adapters' catch blocks.
PlainError(message) ==
    [name |-> "Error", x402Version |-> 0, message |-> "Error: " \o message,
     error |-> ErrorObject(message), accepts |-> <<>>, payer |-> Undefined]

\* toJSON that prints the wrapped Error with String() instead of its message.
toJSON_StringOfError(e) ==
    [x402Version |-> e.x402Version,
     error |-> StringOf(e.error),
     accepts |-> e.accepts,
     payer |-> e.payer]


\* toJSON that leaves the payer out.
toJSON_NoPayer(e) ==
    [x402Version |-> e.x402Version,
     error |-> IF e.error.type = "Error" THEN e.error.message
               ELSE StringOf(e.error),
     accepts |-> e.accepts,
     payer |-> Undefined]

\* X402Error.toJSON(); toJsonSafe leaves plain requirement records as they are.
toJSON(e) ==
    [x402Version |-> e.x402Version,
     error |-> IF e.error.type = "Error" THEN e.error.message
               ELSE StringOf(e.error),
     accepts |-> e.accepts,
     payer |-> e.payer]

\* ------------------------------------------------- routes and requirements
\* Objects held by reference: the outputSchema object of a configuration and
\* the eip712 object of the asset.  A requirement holds the reference; the
\* contents live in the heap.
OutputSchemaRef == "ref:outputSchema"
Eip712Ref == "ref:eip712"

InitHeap ==
    [outputSchema |-> [type |-> "object"],
     eip712 |-> [name |-> "USDC", version |-> "2"]]

\* An optional configuration field is <<>> when absent, <<value>> when given.
NoOptions ==
    [description |-> <<>>, mimeType |-> <<>>, maxTimeoutSeconds |-> <<>>,
     outputSchema |-> <<>>]

\* The routes the adapters are constructed with, in declaration order.  The
\* second entry overlaps the first on GET /weather.
RoutesConfig ==
    << [verb |-> "GET", path |-> "/weather", price |-> "$0.001",
        network |-> "base-sepolia",
        resource |-> "https://api.example.com/resource",
        description |-> <<"Test payment">>,
        mimeType |-> <<"application/json">>,
        maxTimeoutSeconds |-> <<300>>,
        outputSchema |-> <<OutputSchemaRef>>],
       [verb |-> "*", path |-> "/weather", price |-> "$0.01",
        network |-> "base",
        resource |-> "https://api.example.com/any",
        description |-> <<>>, mimeType |-> <<>>,
        maxTimeoutSeconds |-> <<>>, outputSchema |-> <<>>] >>

\* The route a handler is wrapped with by withPayment (no static resource).
WithPaymentConfig ==
    [verb |-> "*", path |-> "*", price |-> "$0.01", network |-> "base",
     resource |-> Undefined,
     description |-> <<>>, mimeType |-> <<>>, maxTimeoutSeconds |-> <<>>,
     outputSchema |-> <<>>]

PayTo == "0x1234567890123456789012345678901234567890"

\* The money prices in use, parsed: whole dollars and the digits after the
\* decimal point.
MoneyPrices == {"$0.001", "$0.01", "$0.12345"}

ParseMoney(price) ==
    CASE price = "$0.001" -> [whole |-> 0, fraction |-> <<0, 0, 1>>]
      [] price = "$0.01" -> [whole |-> 0, fraction |-> <<0, 1>>]
      [] price = "$0.12345" -> [whole |-> 0, fraction |-> <<1, 2, 3, 4, 5>>]

\* USDC has 6 decimals on every network.
UsdcDecimals == 6

RECURSIVE Pow10(_)
Pow10(n) == IF n = 0 THEN 1 ELSE 10 * Pow10(n - 1)

\* The fraction digits from position i on, scaled to `decimals` places.
RECURSIVE ScaleFraction(_, _, _)
ScaleFraction(fraction, i, decimals) ==
    IF i > Len(fraction) \/ i > decimals THEN 0
    ELSE fraction[i] * Pow10(decimals - i)
           + ScaleFraction(fraction, i + 1, decimals)

\* processPriceToAtomicAmount on a money price: the amount in atomic units of
\* USDC, printed as an integer.
AtomicAmount(price) ==
    LET money == ParseMoney(price)
    IN  ToString(money.whole * Pow10(UsdcDecimals)
                   + ScaleFraction(money.fraction, 1, UsdcDecimals))

UsdcAddress(network) ==
    IF network = "base-sepolia"
    THEN "0x036CbD53842c5426634e7929541eC2318f3dCF7e"
    ELSE "0x833589fCD6eDb6E08f4c7C32D4f71b54bdA02913"

\* String.prototype.toUpperCase on the method names in use.
ToUpperCase(m) ==
    CASE m = "get" -> "GET"
      [] m = "post" -> "POST"
      [] OTHER -> m

\* findMatchingRoute: index of the first pattern whose path and verb match,
\* 0 when there is none.
RECURSIVE FindFrom(_, _, _, _)
FindFrom(patterns, i, path, method) ==
    IF i > Len(patterns) THEN 0
    ELSE IF /\ patterns[i].path = path
            /\ (patterns[i].verb = "*" \/ patterns[i].verb = ToUpperCase(method))
         THEN i
         ELSE FindFrom(patterns, i + 1, path, method)

findMatchingRoute(patterns, path, method) == FindFrom(patterns, 1, path, method)


\* match that hands out the last matching pattern instead of the first.
match_LastMatch(path, method) ==
    LET hits == {i \in 1..Len(RoutesConfig) :
                   findMatchingRoute(<<RoutesConfig[i]>>, path, method) = 1}
    IN  IF hits = {} THEN 0
        ELSE CHOOSE i \in hits : \A j \in hits : j <= i

\* MiddlewareRoutesMap.match
match(path, method) == findMatchingRoute(RoutesConfig, path, method)

\* ------------------------------------------------------------ construction
\* A price that names its own asset: amount 100000 of the token at 0xabc.
TokenPrice == "100000@0xabc"

\* processPriceToAtomicAmount(price, network): the atomic amount and the
\* asset address, or an error for a price it cannot read.
processPriceToAtomicAmount(price, network) ==
    CASE price \in MoneyPrices ->
           [error |-> Undefined, maxAmountRequired |-> AtomicAmount(price),
            asset |-> UsdcAddress(network)]
      [] price = TokenPrice ->
           [error |-> Undefined, maxAmountRequired |-> "100000",
            asset |-> "0xabc"]
      [] OTHER ->
           [error |-> "Invalid price", maxAmountRequired |-> Undefined,
            asset |-> Undefined]

\* config.processPriceToAtomicAmountFn when given, the default otherwise.
processPriceToAtomicAmountFn(config) ==
    IF config.priceFn = "oops"
    THEN [error |-> "Oops", maxAmountRequired |-> Undefined, asset |-> Undefined]
    ELSE processPriceToAtomicAmount(config.price, config.network)

\* The addresses getAddress accepts, with their checksummed form.
Checksummed ==
    [a \in {"0x1234567890123456789012345678901234567890",
            "0xbac675c310721717cd4a37f6cbea1f081b1c2a07",
            "0xBAc675C310721717Cd4A37F6cbeA1F081b1C2a07",
            "0x036CbD53842c5426634e7929541eC2318f3dCF7e",
            "0x833589fCD6eDb6E08f4c7C32D4f71b54bdA02913"} |->
       IF a = "0xbac675c310721717cd4a37f6cbea1f081b1c2a07"
       THEN "0xBAc675C310721717Cd4A37F6cbeA1F081b1C2a07"
       ELSE a]

isAddress(a) == a \in DOMAIN Checksummed

\* What getAddress throws for anything else.
InvalidAddressError(a) ==
    [name |-> "InvalidAddressError",
     message |-> "Address \"" \o a \o "\" is invalid."]

PaymentMiddlewareConfigError(message) ==
    [name |-> "PaymentMiddlewareConfigError", message |-> message]

\* The outcome of `new PaymentMiddleware(config)`: the instance, or the error
\* thrown.
Thrown(e) == [thrown |-> <<e>>, instance |-> <<>>]


\* A template whose defaults also replace falsy values (|| instead of ??).
paymentReq_FalsyDefaults(config, atomicAmountForAsset) ==
    [scheme |-> "exact",
     network |-> config.network,
     maxAmountRequired |-> atomicAmountForAsset.maxAmountRequired,
     description |-> IF config.description = <<>> THEN ""
                     ELSE config.description[1],
     mimeType |-> IF config.mimeType \in {<<>>, <<"">>} THEN "application/json"
                  ELSE config.mimeType[1],
     payTo |-> Checksummed[config.payTo],
     maxTimeoutSeconds |-> IF config.maxTimeoutSeconds \in {<<>>, <<0>>} THEN 300
                           ELSE config.maxTimeoutSeconds[1],
     asset |-> Checksummed[atomicAmountForAsset.asset],
     outputSchema |-> IF config.outputSchema = <<>> THEN Undefined
                      ELSE config.outputSchema[1],
     extra |-> Eip712Ref]

\* A template that takes the price as the amount, unconverted.
paymentReq_PriceAsAmount(config, atomicAmountForAsset) ==
    [scheme |-> "exact",
     network |-> config.network,
     maxAmountRequired |-> config.price,
     description |-> IF config.description = <<>> THEN ""
                     ELSE config.description[1],
     mimeType |-> IF config.mimeType = <<>> THEN "application/json"
                  ELSE config.mimeType[1],
     payTo |-> Checksummed[config.payTo],
     maxTimeoutSeconds |-> IF config.maxTimeoutSeconds = <<>> THEN 300
                           ELSE config.maxTimeoutSeconds[1],
     asset |-> Checksummed[atomicAmountForAsset.asset],
     outputSchema |-> IF config.outputSchema = <<>> THEN Undefined
                      ELSE config.outputSchema[1],
     extra |-> Eip712Ref]

\* The requirement template the PaymentMiddleware constructor builds.
paymentReq(config, atomicAmountForAsset) ==
    [scheme |-> "exact",
     network |-> config.network,
     maxAmountRequired |-> atomicAmountForAsset.maxAmountRequired,
     description |-> IF config.description = <<>> THEN ""
                     ELSE config.description[1],
     mimeType |-> IF config.mimeType = <<>> THEN "application/json"
                  ELSE config.mimeType[1],
     payTo |-> Checksummed[config.payTo],
     maxTimeoutSeconds |-> IF config.maxTimeoutSeconds = <<>> THEN 300
                           ELSE config.maxTimeoutSeconds[1],
     asset |-> Checksummed[atomicAmountForAsset.asset],
     outputSchema |-> IF config.outputSchema = <<>> THEN Undefined
                      ELSE config.outputSchema[1],
     extra |-> Eip712Ref]


\* The functions the call-th call of the facilitator factory given to forRoutes
\* returns (`const { verify, settle } = useFacilitatorFn(facilitator)`).
useFacilitatorFn(call) ==
    [verify |-> "useFacilitatorFn#" \o ToString(call) \o ".verify",
     settle |-> "useFacilitatorFn#" \o ToString(call) \o ".settle"]

\* The functions of the constructor's own call `useFacilitator(config.facilitator)`.
useFacilitator == [verify |-> "useFacilitator.verify",
                   settle |-> "useFacilitator.settle"]

\* this.#facilitator: the constructor's own facilitator with verify and settle
\* replaced by config.verifyFn and config.settleFn when they are given.
Facilitator(config) ==
    [verify |-> IF config.verifyFn # <<>> THEN config.verifyFn[1]
                ELSE useFacilitator.verify,
     settle |-> IF config.settleFn # <<>> THEN config.settleFn[1]
                ELSE useFacilitator.settle]

\* A constructor that reports a price error in words of its own.
constructor_OwnPriceMessage(config) ==
    LET static == config.resource # Undefined /\ config.resource # ""
        atomicAmountForAsset == processPriceToAtomicAmountFn(config)
    IN  IF ~static /\ ~config.resourceFromRequest
        THEN Thrown(PaymentMiddlewareConfigError(
                 "Either config.resource or resourceFromRequest must be provided"))
        ELSE IF atomicAmountForAsset.error # Undefined
        THEN Thrown(PaymentMiddlewareConfigError("Invalid price"))
        ELSE IF ~isAddress(config.payTo)
        THEN Thrown(InvalidAddressError(config.payTo))
        ELSE IF ~isAddress(atomicAmountForAsset.asset)
        THEN Thrown(InvalidAddressError(atomicAmountForAsset.asset))
        ELSE [thrown |-> <<>>,
              instance |-> << [config |-> config,
                               resource |-> IF static THEN config.resource
                                            ELSE Undefined,
                               facilitator |-> Facilitator(config),
                               paymentReq |->
                                 paymentReq(config, atomicAmountForAsset)] >>]

\* A constructor that prefers the request function to the static resource.
constructor_PrefersFunction(config) ==
    LET static == config.resource # Undefined /\ config.resource # ""
        atomicAmountForAsset == processPriceToAtomicAmountFn(config)
    IN  IF ~static /\ ~config.resourceFromRequest
        THEN Thrown(PaymentMiddlewareConfigError(
                 "Either config.resource or resourceFromRequest must be provided"))
        ELSE IF atomicAmountForAsset.error # Undefined
        THEN Thrown(PaymentMiddlewareConfigError(atomicAmountForAsset.error))
        ELSE IF ~isAddress(config.payTo)
        THEN Thrown(InvalidAddressError(config.payTo))
        ELSE IF ~isAddress(atomicAmountForAsset.asset)
        THEN Thrown(InvalidAddressError(atomicAmountForAsset.asset))
        ELSE [thrown |-> <<>>,
              instance |-> << [config |-> config,
                               resource |-> IF config.resourceFromRequest
                                            THEN Undefined
                                            ELSE config.resource,
                               facilitator |-> Facilitator(config),
                               paymentReq |->
                                 paymentReq(config, atomicAmountForAsset)] >>]

\* new PaymentMiddleware(config).  `config.resource || resourceFromRequest`
\* takes the function when the static resource is undefined or empty.
constructor(config) ==
    LET static == config.resource # Undefined /\ config.resource # ""
        atomicAmountForAsset == processPriceToAtomicAmountFn(config)
    IN  IF ~static /\ ~config.resourceFromRequest
        THEN Thrown(PaymentMiddlewareConfigError(
                 "Either config.resource or resourceFromRequest must be provided"))
        ELSE IF atomicAmountForAsset.error # Undefined
        THEN Thrown(PaymentMiddlewareConfigError(atomicAmountForAsset.error))
        ELSE IF ~isAddress(config.payTo)
        THEN Thrown(InvalidAddressError(config.payTo))
        ELSE IF ~isAddress(atomicAmountForAsset.asset)
        THEN Thrown(InvalidAddressError(atomicAmountForAsset.asset))
        ELSE [thrown |-> <<>>,
              instance |-> << [config |-> config,
                               resource |-> IF static THEN config.resource
                                            ELSE Undefined,
                               facilitator |-> Facilitator(config),
                               paymentReq |->
                                 paymentReq(config, atomicAmountForAsset)] >>]

\* The PaymentMiddlewareConfig forRoutes makes of a route.
RouteMiddlewareConfig(route) ==
    [price |-> route.price, network |-> route.network, payTo |-> PayTo,
     resource |-> route.resource, resourceFromRequest |-> FALSE,
     priceFn |-> "default",
     verifyFn |-> <<useFacilitatorFn(1).verify>>,
     settleFn |-> <<useFacilitatorFn(1).settle>>,
     description |-> route.description, mimeType |-> route.mimeType,
     maxTimeoutSeconds |-> route.maxTimeoutSeconds,
     outputSchema |-> route.outputSchema]

\* The configuration withPayment passes on: the package's resourceFromRequest
\* and no static resource.
WithPaymentMiddlewareConfig ==
    [price |-> WithPaymentConfig.price, network |-> WithPaymentConfig.network,
     payTo |-> PayTo, resource |-> WithPaymentConfig.resource,
     resourceFromRequest |-> TRUE, priceFn |-> "default",
     verifyFn |-> <<>>, settleFn |-> <<>>,
     description |-> WithPaymentConfig.description,
     mimeType |-> WithPaymentConfig.mimeType,
     maxTimeoutSeconds |-> WithPaymentConfig.maxTimeoutSeconds,
     outputSchema |-> WithPaymentConfig.outputSchema]

\* The configuration of a direct caller.
DirectConfig ==
    [price |-> "$0.01", network |-> "base",
     payTo |-> "0xBAc675C310721717Cd4A37F6cbeA1F081b1C2a07",
     resource |-> "res://test", resourceFromRequest |-> FALSE,
     priceFn |-> "default",
     verifyFn |-> <<"test.verify">>, settleFn |-> <<"test.settle">>,
     description |-> <<>>, mimeType |-> <<>>, maxTimeoutSeconds |-> <<>>,
     outputSchema |-> <<>>]

\* The required fields a constructing caller may pass.
RequiredConfigs ==
    [price : {"$0.001", "$0.01", "bad", TokenPrice},
     network : {"base"},
     payTo : {"0xBAc675C310721717Cd4A37F6cbeA1F081b1C2a07",
              "0xbac675c310721717cd4a37f6cbea1f081b1c2a07",
              "0x123"},
     resource : {Undefined, "", "https://example.com/resource.json"},
     resourceFromRequest : BOOLEAN,
     priceFn : {"default", "oops"}]

\* The optional fields it may add: none, falsy values, proper values, and
\* two mixtures.
OptionalConfigs ==
    { NoOptions,
      [description |-> <<"">>, mimeType |-> <<"">>,
       maxTimeoutSeconds |-> <<0>>, outputSchema |-> <<>>],
      [description |-> <<"Access to premium content">>,
       mimeType |-> <<"text/plain">>, maxTimeoutSeconds |-> <<600>>,
       outputSchema |-> <<OutputSchemaRef>>],
      [description |-> <<"static">>, mimeType |-> <<"application/json">>,
       maxTimeoutSeconds |-> <<>>, outputSchema |-> <<>>],
      [description |-> <<>>, mimeType |-> <<>>,
       maxTimeoutSeconds |-> <<0>>, outputSchema |-> <<OutputSchemaRef>>] }

\* configuration = required fields and optional fields in one record.
WithOptions(required, optional) ==
    [price |-> required.price, network |-> required.network,
     payTo |-> required.payTo, resource |-> required.resource,
     resourceFromRequest |-> required.resourceFromRequest,
     priceFn |-> required.priceFn,
     verifyFn |-> <<>>, settleFn |-> <<>>,
     description |-> optional.description, mimeType |-> optional.mimeType,
     maxTimeoutSeconds |-> optional.maxTimeoutSeconds,
     outputSchema |-> optional.outputSchema]

\* The configuration of the constructor tests with the optional fields set.
FullConfig ==
    [price |-> "$0.12345", network |-> "base",
     payTo |-> "0xBAc675C310721717Cd4A37F6cbeA1F081b1C2a07",
     resource |-> "https://example.com/protected/resource",
     resourceFromRequest |-> FALSE, priceFn |-> "default"]

\* The configurations a constructing caller may pass.
ConstructConfigs ==
    {WithOptions(c, NoOptions) : c \in RequiredConfigs}
      \cup {WithOptions(FullConfig, o) : o \in OptionalConfigs}

\* The constructor calls the price converter once it is past the resource check.
ReachesConversion(config) ==
    (config.resource # Undefined /\ config.resource # "")
      \/ config.resourceFromRequest

\* The configurations of the caller that asks for requirements: a static
\* resource, the request function alone, and both.
RequirementsConfigs ==
    { WithOptions([FullConfig EXCEPT !.resource = rs[1],
                                     !.resourceFromRequest = rs[2]], o) :
        rs \in { <<"https://example.com/protected/resource", FALSE>>,
                 <<Undefined, TRUE>>,
                 <<"https://example.com/protected/resource", TRUE>> },
        o \in { NoOptions,
                [description |-> <<"Access to premium content">>,
                 mimeType |-> <<"text/plain">>, maxTimeoutSeconds |-> <<600>>,
                 outputSchema |-> <<OutputSchemaRef>>] } }

\* A construction that leaves out the routes it cannot build.
RECURSIVE ConstructFrom_SkipsInvalid(_, _, _)
ConstructFrom_SkipsInvalid(configs, i, instances) ==
    IF i > Len(configs)
    THEN [phase |-> "built", configs |-> configs, instances |-> instances,
          thrown |-> <<>>, heap |-> InitHeap, calls |-> <<>>,
          converted |-> Len(configs)]
    ELSE LET out == constructor(configs[i])
         IN ConstructFrom_SkipsInvalid(configs, i + 1,
                IF out.thrown # <<>> THEN instances
                ELSE Append(instances, out.instance[1]))

\* Construction of every middleware of a caller, in order: forRoutes maps the
\* routes to instances and the first failing constructor ends it; the other
\* callers construct one instance.
RECURSIVE ConstructFrom(_, _, _)
ConstructFrom(configs, i, instances) ==
    IF i > Len(configs)
    THEN [phase |-> "built", configs |-> configs, instances |-> instances,
          thrown |-> <<>>, heap |-> InitHeap, calls |-> <<>>,
          converted |-> Len(configs)]
    ELSE LET out == constructor(configs[i])
         IN IF out.thrown # <<>>
            THEN [phase |-> "failed", configs |-> configs, instances |-> <<>>,
                  thrown |-> out.thrown, heap |-> InitHeap, calls |-> <<>>,
                  converted |-> (i - 1) + (IF ReachesConversion(configs[i])
                                           THEN 1 ELSE 0)]
            ELSE ConstructFrom(configs, i + 1,
                               Append(instances, out.instance[1]))

forRoutes(configs) == ConstructFrom(configs, 1, <<>>)

Configured(configs) ==
    [phase |-> "configured", configs |-> configs, instances |-> <<>>,
     thrown |-> <<>>, heap |-> InitHeap, calls |-> <<>>, converted |-> 0]

\* resourceFromRequest of the Next.js package: protocol//host + pathname.
resourceFromRequest(q) == "https://example.com" \o q.path

\* Object.assign({}, this.#paymentReq, {resource}): a new object with the
\* template's fields (references included) and the resource.
AssignResource(t, resource) ==
    [scheme |-> t.scheme, network |-> t.network,
     maxAmountRequired |-> t.maxAmountRequired,
     description |-> t.description, mimeType |-> t.mimeType,
     payTo |-> t.payTo, maxTimeoutSeconds |-> t.maxTimeoutSeconds,
     asset |-> t.asset, outputSchema |-> t.outputSchema, extra |-> t.extra,
     resource |-> resource]

\* A paymentRequirements that asks the request function every time.
paymentRequirements_AlwaysResolves(m, q) ==
    << AssignResource(m.paymentReq, resourceFromRequest(q)) >>

\* PaymentMiddleware.paymentRequirements(request)
paymentRequirements(m, q) ==
    LET resource == IF m.resource = Undefined
                    THEN resourceFromRequest(q)
                    ELSE m.resource
    IN << AssignResource(m.paymentReq, resource) >>

\* The requests paymentRequirements is called with.
CallRequests ==
    { q \in HttpRequests : /\ q.method = "GET" /\ q.xPayment = ""
                           /\ q.accept = "application/json"
                           /\ q.userAgent = "curl/8" }

\* What a reader of requirement d sees: its fields, with the contents of the
\* objects it refers to.
Deep(d, heap) ==
    [scheme |-> d.scheme, network |-> d.network,
     maxAmountRequired |-> d.maxAmountRequired,
     description |-> d.description, mimeType |-> d.mimeType,
     payTo |-> d.payTo, maxTimeoutSeconds |-> d.maxTimeoutSeconds,
     asset |-> d.asset, resource |-> d.resource,
     outputSchema |-> IF d.outputSchema = OutputSchemaRef
                      THEN <<heap.outputSchema>> ELSE <<>>,
     extra |-> IF d.extra = Eip712Ref THEN <<heap.eip712>> ELSE <<>>]

\* paymentRequirements calls this.#resource when it is a function, which it is
\* when the constructor found no static resource.
ResolverCalls(m) == IF m.resource = Undefined THEN 1 ELSE 0

\* One call of paymentRequirements(q) on the caller's instance: `resolved`
\* counts the calls of the resource function it made, `returned` is the list
\* as returned, `seen` what it read as at that moment, `object` the
\* returned requirement as the caller holds it from then on.
Called(m, q) ==
    LET returned == paymentRequirements(m.instances[1], q)
    IN  [m EXCEPT !.calls =
           Append(@, [request |-> q,
                      resolved |-> ResolverCalls(m.instances[1]),
                      returned |-> returned,
                      seen |-> [k \in 1..Len(returned) |->
                                  Deep(returned[k], m.heap)],
                      object |-> returned[1]])]

\* What a caller writes to a returned requirement: a field of the object
\* itself, or a property of the object its extra or outputSchema refers to.
Writes == {"maxAmountRequired", "extra", "outputSchema"}

Write(m, i, w) ==
    CASE w = "maxAmountRequired" ->
           [m EXCEPT !.calls[i].object.maxAmountRequired = "0"]
      [] w = "extra" -> [m EXCEPT !.heap.eip712.name = "changed"]
      [] OTHER -> [m EXCEPT !.heap.outputSchema.type = "changed"]

\* Requirement lists a direct caller of acquirePayment may pass.
DirectRequirements ==
    { paymentRequirements(
          constructor(RouteMiddlewareConfig(RoutesConfig[i])).instance[1],
          NoRequest)[1] : i \in 1..Len(RoutesConfig) }

RECURSIVE SeqsUpTo(_, _)
SeqsUpTo(S, n) ==
    IF n = 0 THEN {<<>>}
    ELSE LET shorter == SeqsUpTo(S, n - 1)
         IN shorter \cup {Append(q, x) : q \in shorter, x \in S}

DirectRequirementLists == SeqsUpTo(DirectRequirements, MaxAccepts)

\* exact.evm.decodePayment on the header values in use.
decodePayment(header) ==
    IF header = "encoded-p1"
    THEN [kind |-> "payload", payload |-> "p1", error |-> Undefined]
    ELSE IF header = "encoded-p2"
    THEN [kind |-> "payload", payload |-> "p2", error |-> Undefined]
    ELSE [kind |-> "throws", payload |-> Undefined, error |-> "Invalid payment"]

\* paymentFromRequest of the adapters.
paymentFromRequest(q) ==
    IF q.xPayment = ""
    THEN [kind |-> "absent", payload |-> Undefined, error |-> Undefined]
    ELSE decodePayment(q.xPayment)

\* String.prototype.includes
Includes(s, sub) ==
    \E i \in 1..(Len(s) - Len(sub) + 1) : SubSeq(s, i, i + Len(sub) - 1) = sub

\* A canRenderPaywall that looks at the Accept header alone.
canRenderPaywall_AcceptOnly(q) == Includes(q.accept, "text/html")

\* canRenderPaywall of the adapters.
canRenderPaywall(q) ==
    Includes(q.accept, "text/html") /\ Includes(q.userAgent, "Mozilla")

\* findMatchingPaymentRequirements answers one element of the list or nothing.
MatcherResults(requirements) ==
    {<<>>} \cup {<<requirements[i]>> : i \in 1..Len(requirements)}

\* ------------------------------------------------------------ request state
\* The response object of a request as the adapter and the client see it.
\* end, deferred and sent are the Express adapter's patched res.end, its
\* deferred promise and what the original res.end has put on the wire.
InitRes ==
    [status |-> 200, body |-> "none", json |-> <<>>, xPaymentResponse |-> <<>>,
     headersSent |-> FALSE, end |-> "original", deferred |-> <<>>,
     sent |-> <<>>]

NotExtracted == [kind |-> "none", payload |-> Undefined, error |-> Undefined]

\* The state of one request.  given, extracted, predicate and matcher record
\* what acquirePayment was passed and what its collaborators answered,
\* settleReplies what the settler answered to each settle call; the other
\* fields are the values the code holds and the calls it has made.
InitReq ==
    [pc |-> "idle",
     request |-> NoRequest,
     route |-> 0,
     requirements |-> <<>>,
     given |-> <<>>,
     extracted |-> NotExtracted,
     predicate |-> "notasked",
     matcher |-> [asked |-> FALSE, result |-> <<>>],
     payload |-> Undefined,
     selected |-> <<>>,
     verification |-> <<>>,
     acquireResult |-> "notcalled",
     payment |-> <<>>,
     raised |-> <<>>,
     escaped |-> <<>>,
     settlements |-> <<>>,
     verifyArgs |-> <<>>,
     settleArgs |-> <<>>,
     settleReplies |-> <<>>,
     inFlight |-> <<>>,
     trace |-> <<>>,
     handlerCalls |-> 0,
     handlerStatus |-> 0,
     handlerThrew |-> FALSE,
     res |-> InitRes]

Log(s, event) == [s EXCEPT !.trace = Append(@, event)]

\* Remove the first outstanding facilitator call of the given kind.
RECURSIVE RemoveFirst(_, _)
RemoveFirst(q, x) ==
    IF q = <<>> THEN <<>>
    ELSE IF Head(q) = x THEN Tail(q)
         ELSE <<Head(q)>> \o RemoveFirst(Tail(q), x)

\* ---------------------------------------------------------------- the core
\* `throw new X402Error(...)` inside acquirePayment.
AcquireThrow(s, e) ==
    [s EXCEPT !.raised = Append(@, e), !.acquireResult = "X402Error"]

\* The verify call issued but not awaited: the payment is handed out at once.
CallVerify_NotAwaited(s, payload, selected) ==
    [Log(s, "verify") EXCEPT
        !.verifyArgs = Append(@, [payload |-> payload, selected |-> selected]),
        !.inFlight = Append(@, "verify"),
        !.payment = << [payload |-> payload, selected |-> selected,
                        requirements |-> s.requirements] >>,
        !.acquireResult = "acquired"]

\* The call `this.#facilitator.verify(paymentPayload, selected)`.
CallVerify(s, payload, selected) ==
    [Log(s, "verify") EXCEPT
        !.verifyArgs = Append(@, [payload |-> payload, selected |-> selected]),
        !.inFlight = Append(@, "verify"),
        !.acquireResult = "pending",
        !.pc = "verifying"]

\* paymentFromRequest threw (lines 396-398).
AcquireExtractorFailed(s, error) ==
    AcquireThrow(s, X402Error(ErrorObject(error), s.requirements, Undefined))

\* The paywall predicate read the wrong way round.
AcquireNoPayload_Inverted(s, hasPredicate, renderable) ==
    LET s1 == IF hasPredicate
              THEN [Log(s, "canRenderPaywall") EXCEPT
                      !.predicate = IF renderable THEN "true" ELSE "false"]
              ELSE s
    IN  IF hasPredicate /\ ~renderable
        THEN [s1 EXCEPT !.acquireResult = "undefined"]
        ELSE AcquireThrow(s1,
               X402Error(ErrorString("X-PAYMENT header is required"),
                         s1.requirements, Undefined))

\* A missing predicate taken as "a paywall can be rendered".
AcquireNoPayload_DefaultsToPaywall(s, hasPredicate, renderable) ==
    LET s1 == IF hasPredicate
              THEN [Log(s, "canRenderPaywall") EXCEPT
                      !.predicate = IF renderable THEN "true" ELSE "false"]
              ELSE s
    IN  IF ~hasPredicate \/ renderable
        THEN [s1 EXCEPT !.acquireResult = "undefined"]
        ELSE AcquireThrow(s1,
               X402Error(ErrorString("X-PAYMENT header is required"),
                         s1.requirements, Undefined))

\* No payload (lines 399-405): the paywall predicate, when there is one,
\* decides between the "no payment" sentinel and an error.
AcquireNoPayload(s, hasPredicate, renderable) ==
    LET s1 == IF hasPredicate
              THEN [Log(s, "canRenderPaywall") EXCEPT
                      !.predicate = IF renderable THEN "true" ELSE "false"]
              ELSE s
    IN  IF hasPredicate /\ renderable
        THEN [s1 EXCEPT !.acquireResult = "undefined"]
        ELSE AcquireThrow(s1,
               X402Error(ErrorString("X-PAYMENT header is required"),
                         s1.requirements, Undefined))

\* The no-match error raised with only the (empty) selection as accepts.
AcquireWithPayload_AcceptsSelection(s, payload, matched) ==
    LET s1 == [Log(s, "findMatchingPaymentRequirements") EXCEPT
                  !.payload = payload,
                  !.matcher = [asked |-> TRUE, result |-> matched]]
    IN  IF matched = <<>>
        THEN AcquireThrow(s1,
               X402Error(ErrorString("Unable to find matching payment requirements"),
                         matched, Undefined))
        ELSE CallVerify([s1 EXCEPT !.selected = matched], payload, matched[1])

\* A payload (lines 406-410): the matcher selects a requirement, then verify.
AcquireWithPayload(s, payload, matched) ==
    LET s1 == [Log(s, "findMatchingPaymentRequirements") EXCEPT
                  !.payload = payload,
                  !.matcher = [asked |-> TRUE, result |-> matched]]
    IN  IF matched = <<>>
        THEN AcquireThrow(s1,
               X402Error(ErrorString("Unable to find matching payment requirements"),
                         s1.requirements, Undefined))
        ELSE CallVerify([s1 EXCEPT !.selected = matched], payload, matched[1])

\* acquirePayment that asks the paywall predicate before it extracts anything.
acquirePayment_PaywallFirst(s, requirements, extracted, hasPredicate, renderable, matched) ==
    LET s0 == IF hasPredicate
              THEN [Log(s, "canRenderPaywall") EXCEPT
                      !.predicate = IF renderable THEN "true" ELSE "false"]
              ELSE s
        s1 == [Log(s0, "paymentFromRequest") EXCEPT
                  !.given = requirements,
                  !.requirements = requirements,
                  !.extracted = extracted]
    IN  CASE extracted.kind = "throws" -> AcquireExtractorFailed(s1, extracted.error)
          [] extracted.kind = "absent" ->
                IF hasPredicate /\ renderable
                THEN [s1 EXCEPT !.acquireResult = "undefined"]
                ELSE AcquireThrow(s1,
                       X402Error(ErrorString("X-PAYMENT header is required"),
                                 requirements, Undefined))
          [] OTHER -> AcquireWithPayload(s1, extracted.payload, matched)

\* PaymentMiddleware.acquirePayment up to its await: extraction, then the
\* paywall check or the requirement match, then the verify call.  extracted,
\* (hasPredicate, renderable) and matched are what the injected extractor,
\* paywall predicate and matcher answer if they are called.
acquirePayment(s, requirements, extracted, hasPredicate, renderable, matched) ==
    LET s1 == [Log(s, "paymentFromRequest") EXCEPT
                  !.given = requirements,
                  !.requirements = requirements,
                  !.extracted = extracted]
    IN  CASE extracted.kind = "throws" -> AcquireExtractorFailed(s1, extracted.error)
          [] extracted.kind = "absent" -> AcquireNoPayload(s1, hasPredicate, renderable)
          [] OTHER -> AcquireWithPayload(s1, extracted.payload, matched)

\* acquirePayment that never looks at isValid.
acquirePaymentResume_IgnoresIsValid(s, v) ==
    LET s1 == [s EXCEPT !.inFlight = RemoveFirst(@, "verify"),
                        !.verification = <<v>>]
    IN  IF v.kind = "reject"
        THEN [s1 EXCEPT !.escaped = Append(@, PlainError(v.error)),
                        !.acquireResult = "Error"]
        ELSE [s1 EXCEPT
                !.payment = << [payload |-> s1.payload,
                                selected |-> s1.selected[1],
                                requirements |-> s1.requirements] >>,
                !.acquireResult = "acquired"]

\* acquirePayment that forgets the payer the verifier reported.
acquirePaymentResume_NoPayer(s, v) ==
    LET s1 == [s EXCEPT !.inFlight = RemoveFirst(@, "verify"),
                        !.verification = <<v>>]
    IN  IF v.kind = "reject"
        THEN [s1 EXCEPT !.escaped = Append(@, PlainError(v.error)),
                        !.acquireResult = "Error"]
        ELSE IF ~v.isValid
        THEN AcquireThrow(s1,
               X402Error(ErrorString(IF v.invalidReason = Undefined
                                     THEN "Payment verification failed"
                                     ELSE v.invalidReason),
                         s1.requirements, Undefined))
        ELSE [s1 EXCEPT
                !.payment = << [payload |-> s1.payload,
                                selected |-> s1.selected[1],
                                requirements |-> s1.requirements] >>,
                !.acquireResult = "acquired"]


\* acquirePayment that hands the payment only the selected requirement.
acquirePaymentResume_SelectedOnly(s, v) ==
    LET s1 == [s EXCEPT !.inFlight = RemoveFirst(@, "verify"),
                        !.verification = <<v>>]
    IN  IF v.kind = "reject"
        THEN [s1 EXCEPT !.escaped = Append(@, PlainError(v.error)),
                        !.acquireResult = "Error"]
        ELSE IF ~v.isValid
        THEN AcquireThrow(s1,
               X402Error(ErrorString(IF v.invalidReason = Undefined
                                     THEN "Payment verification failed"
                                     ELSE v.invalidReason),
                         s1.requirements, v.payer))
        ELSE [s1 EXCEPT
                !.payment = << [payload |-> s1.payload,
                                selected |-> s1.selected[1],
                                requirements |-> s1.selected] >>,
                !.acquireResult = "acquired"]

\* An acquirePayment that hands the first requirement of the list to the
\* AcquiredPayment instead of the selected one.
acquirePaymentResume_FirstRequirement(s, v) ==
    LET s1 == [s EXCEPT !.inFlight = RemoveFirst(@, "verify"),
                        !.verification = <<v>>]
    IN  IF v.kind = "reject"
        THEN [s1 EXCEPT !.escaped = Append(@, PlainError(v.error)),
                        !.acquireResult = "Error"]
        ELSE IF ~v.isValid
        THEN AcquireThrow(s1,
               X402Error(ErrorString(IF v.invalidReason = Undefined
                                     THEN "Payment verification failed"
                                     ELSE v.invalidReason),
                         s1.requirements, v.payer))
        ELSE [s1 EXCEPT
                !.payment = << [payload |-> s1.payload,
                                selected |-> s1.requirements[1],
                                requirements |-> s1.requirements] >>,
                !.acquireResult = "acquired"]

\* An acquirePayment that wraps a rejection of the verifier call in an
\* X402Error.
acquirePaymentResume_WrapsRejection(s, v) ==
    LET s1 == [s EXCEPT !.inFlight = RemoveFirst(@, "verify"),
                        !.verification = <<v>>]
    IN  IF v.kind = "reject"
        THEN AcquireThrow(s1, X402Error(ErrorObject(v.error),
                                        s1.requirements, Undefined))
        ELSE IF ~v.isValid
        THEN AcquireThrow(s1,
               X402Error(ErrorString(IF v.invalidReason = Undefined
                                     THEN "Payment verification failed"
                                     ELSE v.invalidReason),
                         s1.requirements, v.payer))
        ELSE [s1 EXCEPT
                !.payment = << [payload |-> s1.payload,
                                selected |-> s1.selected[1],
                                requirements |-> s1.requirements] >>,
                !.acquireResult = "acquired"]

\* acquirePayment after its await: the verifier has answered v.
acquirePaymentResume(s, v) ==
    LET s1 == [s EXCEPT !.inFlight = RemoveFirst(@, "verify"),
                        !.verification = <<v>>]
    IN  IF v.kind = "reject"
        THEN [s1 EXCEPT !.escaped = Append(@, PlainError(v.error)),
                        !.acquireResult = "Error"]
        ELSE IF ~v.isValid
        THEN AcquireThrow(s1,
               X402Error(ErrorString(IF v.invalidReason = Undefined
                                     THEN "Payment verification failed"
                                     ELSE v.invalidReason),
                         s1.requirements, v.payer))
        ELSE [s1 EXCEPT
                !.payment = << [payload |-> s1.payload,
                                selected |-> s1.selected[1],
                                requirements |-> s1.requirements] >>,
                !.acquireResult = "acquired"]

\* A settle that takes the payment from a slot the requests share.
settle_SharedPayment(s) ==
    LET holders == {r \in live : req[r].payment # <<>>}
        p == IF holders = {} THEN s.payment[1]
             ELSE req[CHOOSE r \in holders : TRUE].payment[1]
    IN  [Log(s, "settle") EXCEPT
            !.settleArgs = Append(@, [payload |-> p.payload,
                                      selected |-> p.selected]),
            !.inFlight = Append(@, "settle")]

\* A settle that calls the settler for the first invocation only.
settle_OnceOnly(s) ==
    IF s.settleArgs # <<>> THEN Log(s, "settle")
    ELSE [Log(s, "settle") EXCEPT
            !.settleArgs = Append(@, [payload |-> s.payment[1].payload,
                                      selected |-> s.payment[1].selected]),
            !.inFlight = Append(@, "settle")]

\* AcquiredPayment.settle up to its await: the settle call on the facilitator.
settle(s) ==
    [Log(s, "settle") EXCEPT
        !.settleArgs = Append(@, [payload |-> s.payment[1].payload,
                                  selected |-> s.payment[1].selected]),
        !.inFlight = Append(@, "settle")]


\* settle that reports the network of the selected requirement instead of the
\* one the settler returned.
settleResult_NetworkOfRequirement(payment, st) ==
    IF st.kind = "reject"
    THEN [kind |-> "throw",
          settlement |-> <<>>,
          error |-> <<X402Error(ErrorObject(st.error), payment.requirements,
                                Undefined)>>]
    ELSE IF st.success
    THEN [kind |-> "return",
          settlement |-> << [success |-> TRUE, transaction |-> st.transaction,
                             network |-> payment.selected.network,
                             payer |-> st.payer] >>,
          error |-> <<>>]
    ELSE [kind |-> "throw",
          settlement |-> <<>>,
          error |-> <<X402Error(ErrorString("Settlement failed: " \o st.errorReason),
                                payment.requirements, st.payer)>>]

\* settle that drops the payer the settler reported with a failure.
settleResult_FailureNoPayer(payment, st) ==
    IF st.kind = "reject"
    THEN [kind |-> "throw",
          settlement |-> <<>>,
          error |-> <<X402Error(ErrorObject(st.error), payment.requirements,
                                Undefined)>>]
    ELSE IF st.success
    THEN [kind |-> "return",
          settlement |-> << [success |-> TRUE, transaction |-> st.transaction,
                             network |-> st.network, payer |-> st.payer] >>,
          error |-> <<>>]
    ELSE [kind |-> "throw",
          settlement |-> <<>>,
          error |-> <<X402Error(ErrorString("Settlement failed: " \o st.errorReason),
                                payment.requirements, Undefined)>>]

\* settle whose errors carry only the selected requirement.
settleResult_SelectedOnly(payment, st) ==
    IF st.kind = "reject"
    THEN [kind |-> "throw",
          settlement |-> <<>>,
          error |-> <<X402Error(ErrorObject(st.error), <<payment.selected>>,
                                Undefined)>>]
    ELSE IF st.success
    THEN [kind |-> "return",
          settlement |-> << [success |-> TRUE, transaction |-> st.transaction,
                             network |-> st.network, payer |-> st.payer] >>,
          error |-> <<>>]
    ELSE [kind |-> "throw",
          settlement |-> <<>>,
          error |-> <<X402Error(ErrorString("Settlement failed: " \o st.errorReason),
                                <<payment.selected>>, st.payer)>>]

\* AcquiredPayment.settle after its await: what it returns or throws when the
\* settler has answered st.
settleResult(payment, st) ==
    IF st.kind = "reject"
    THEN [kind |-> "throw",
          settlement |-> <<>>,
          error |-> <<X402Error(ErrorObject(st.error), payment.requirements,
                                Undefined)>>]
    ELSE IF st.success
    THEN [kind |-> "return",
          settlement |-> << [success |-> TRUE, transaction |-> st.transaction,
                             network |-> st.network, payer |-> st.payer] >>,
          error |-> <<>>]
    ELSE [kind |-> "throw",
          settlement |-> <<>>,
          error |-> <<X402Error(ErrorString("Settlement failed: " \o st.errorReason),
                                payment.requirements, st.payer)>>]

settleResume(s, st) ==
    LET out == settleResult(s.payment[1], st)
    IN  [s EXCEPT !.inFlight = RemoveFirst(@, "settle"),
                  !.settleReplies = Append(@, st),
                  !.settlements = @ \o out.settlement,
                  !.raised = @ \o out.error]

\* ------------------------------------------------------- adapters: common
HandlerError == PlainError("handler failed")

LastRaised(s) == s.raised[Len(s.raised)]

\* A request enters a routed adapter: it is matched against the routes.
Routed(s, q) ==
    [s EXCEPT !.request = q, !.route = match(q.path, ToUpperCase(q.method))]


\* A pass-through that returns without calling next().
PassThrough_Swallows(s) == [s EXCEPT !.pc = "done"]

\* `return next()` for a request that matches no route.
PassThrough(s) ==
    [Log(s, "next") EXCEPT !.handlerCalls = @ + 1, !.pc = "done"]

\* The adapter calls the downstream handler and waits for it.
CallHandler(s) ==
    [Log(s, "next") EXCEPT !.handlerCalls = @ + 1, !.pc = "handler"]

\* `throw e` out of the middleware for an error that is no X402Error.
Rethrow(s) == [s EXCEPT !.pc = "done"]

\* The paywall answer: an HTML page with status 402.
PaywallResponse(s) ==
    [s EXCEPT !.res.status = 402, !.res.body = "paywall", !.pc = "done"]

\* The catch block that answers an X402Error with a fresh 402 JSON response
\* (Hono keeps the headers of the response it replaces).
JsonErrorResponse(s, e, keepHeaders) ==
    [s EXCEPT !.res.status = 402, !.res.body = "x402",
              !.res.json = <<toJSON(e)>>,
              !.res.xPaymentResponse = IF keepHeaders THEN @ ELSE <<>>,
              !.pc = "done"]

\* settleResponseHeader(settlement) put into X-PAYMENT-RESPONSE.
SetPaymentResponse(s, settlement) ==
    [s EXCEPT !.res.xPaymentResponse = <<settlement>>]

\* A catch block that answers 402 for whatever was thrown.
HonoCatch_AnswersEveryError(s) ==
    IF s.acquireResult = "Error"
    THEN JsonErrorResponse(s, s.escaped[Len(s.escaped)], TRUE)
    ELSE JsonErrorResponse(s, LastRaised(s), TRUE)

\* ----------------------------------------------------------- adapter: Hono
HonoCatch(s) ==
    IF s.acquireResult = "Error" THEN Rethrow(s)
    ELSE JsonErrorResponse(s, LastRaised(s), TRUE)

\* The Hono middleware from the return of acquirePayment to `await next()`.
HonoAfterAcquire(s) ==
    CASE s.acquireResult = "pending" -> s
      [] s.acquireResult = "undefined" -> PaywallResponse(s)
      [] s.acquireResult = "acquired" -> CallHandler(s)
      [] OTHER -> HonoCatch(s)

\* The requests the Hono application receives: any request when it serves one
\* at a time, the concurrent ones when two are in process together.
HonoRequests == IF live = {1} THEN HttpRequests ELSE ConcurrentRequests

HonoRequest(r) ==
    /\ adapter = "hono" /\ mw.phase = "built"
    /\ r \in live /\ req[r].pc = "idle"
    /\ \E q \in HonoRequests :
         LET s0 == Routed(req[r], q) IN
         IF s0.route = 0
         THEN req' = [req EXCEPT ![r] = PassThrough(s0)]
         ELSE LET reqs == paymentRequirements(mw.instances[s0.route], q) IN
              \E matched \in MatcherResults(reqs) :
                req' = [req EXCEPT ![r] =
                          HonoAfterAcquire(
                            acquirePayment(s0, reqs, paymentFromRequest(q),
                                           TRUE, canRenderPaywall(q), matched))]
    /\ UNCHANGED <<adapter, live, mw>>

HonoVerified(r) ==
    /\ adapter = "hono" /\ r \in live /\ req[r].pc = "verifying"
    /\ \E v \in VerifyResponses :
         req' = [req EXCEPT ![r] = HonoAfterAcquire(acquirePaymentResume(req[r], v))]
    /\ UNCHANGED <<adapter, live, mw>>

\* The status check written with > instead of >=.
HonoAfterNext_StrictlyGreater(s, h) ==
    IF h.kind = "throws"
    THEN Rethrow([s EXCEPT !.handlerThrew = TRUE,
                           !.escaped = Append(@, PlainError("handler failed"))])
    ELSE LET s1 == [s EXCEPT !.handlerStatus = h.status,
                             !.res.status = h.status, !.res.body = "handler"]
         IN  IF s1.res.status > 400
             THEN [s1 EXCEPT !.pc = "done"]
             ELSE [settle(s1) EXCEPT !.pc = "settling"]

\* The Hono middleware after `await next()`: status check, then settle.
HonoAfterNext(s, h) ==
    IF h.kind = "throws"
    THEN Rethrow([s EXCEPT !.handlerThrew = TRUE,
                           !.escaped = Append(@, HandlerError)])
    ELSE LET s1 == [s EXCEPT !.handlerStatus = h.status,
                             !.res.status = h.status, !.res.body = "handler"]
         IN  IF s1.res.status >= 400
             THEN [s1 EXCEPT !.pc = "done"]
             ELSE [settle(s1) EXCEPT !.pc = "settling"]

HonoNextReturns(r) ==
    /\ adapter = "hono" /\ r \in live /\ req[r].pc = "handler"
    /\ \E h \in HandlerOutcomes :
         /\ ~h.headersSent
         /\ req' = [req EXCEPT ![r] = HonoAfterNext(req[r], h)]
    /\ UNCHANGED <<adapter, live, mw>>

\* A failed settle tried once more before the error is answered.
HonoAfterSettle_Retries(s, st) ==
    LET out == settleResult(s.payment[1], st)
        s1 == settleResume(s, st)
    IN  IF out.kind = "return"
        THEN [SetPaymentResponse(s1, out.settlement[1]) EXCEPT !.pc = "done"]
        ELSE IF Len(s1.settleArgs) < 2
        THEN [settle(s1) EXCEPT !.pc = "settling"]
        ELSE HonoCatch(s1)

\* A Hono middleware that leaves the handler's response when settle fails.
HonoAfterSettle_KeepsResponse(s, st) ==
    LET out == settleResult(s.payment[1], st)
        s1 == settleResume(s, st)
    IN  IF out.kind = "return"
        THEN [SetPaymentResponse(s1, out.settlement[1]) EXCEPT !.pc = "done"]
        ELSE [s1 EXCEPT !.pc = "done"]

\* The Hono middleware after `await payment.settle()`.
HonoAfterSettle(s, st) ==
    LET out == settleResult(s.payment[1], st)
        s1 == settleResume(s, st)
    IN  IF out.kind = "return"
        THEN [SetPaymentResponse(s1, out.settlement[1]) EXCEPT !.pc = "done"]
        ELSE HonoCatch(s1)

HonoSettled(r) ==
    /\ adapter = "hono" /\ r \in live /\ req[r].pc = "settling"
    /\ \E st \in SettleResponses :
         req' = [req EXCEPT ![r] = HonoAfterSettle(req[r], st)]
    /\ UNCHANGED <<adapter, live, mw>>

\* -------------------------------------------------------- adapter: Express
\* The original res.end: the response goes on the wire as it stands.
OriginalEnd(s, args) ==
    [s EXCEPT !.res.sent = Append(@, [status |-> s.res.status,
                                      body |-> args.body,
                                      json |-> args.json,
                                      xPaymentResponse |-> s.res.xPaymentResponse]),
              !.res.headersSent = TRUE]

\* A patched res.end that does not resolve the deferred promise.
ResEnd_PatchedDropsEnd(s, args) ==
    IF s.res.end = "original" THEN OriginalEnd(s, args) ELSE s

\* res.end(...args) as currently installed: the patched one only resolves the
\* deferred promise, and resolving a settled promise changes nothing.
ResEnd(s, args) ==
    IF s.res.end = "original" THEN OriginalEnd(s, args)
    ELSE IF s.res.deferred = <<>> THEN [s EXCEPT !.res.deferred = <<args>>]
    ELSE s

\* res.status(402).send(html)
ExpressPaywall(s) ==
    ResEnd([s EXCEPT !.res.status = 402, !.res.body = "paywall"],
           [body |-> "paywall", json |-> <<>>])

\* The catch block: a 402 JSON answer unless the headers have been sent.
ExpressCatch(s) ==
    IF s.acquireResult = "Error" THEN s
    ELSE IF ~s.res.headersSent
    THEN LET body == <<toJSON(LastRaised(s))>>
         IN ResEnd([s EXCEPT !.res.status = 402, !.res.body = "x402",
                             !.res.json = body],
                   [body |-> "x402", json |-> body])
    ELSE s

\* A finally block that sends the response and leaves the patched end in place.
ExpressFinally_KeepsPatch(s) ==
    LET s1 == [s EXCEPT !.pc = "done"]
    IN  IF s1.res.deferred = <<>> THEN s1
        ELSE OriginalEnd(s1, s1.res.deferred[1])

\* The finally block: res.end is restored, and once the deferred promise is
\* resolved the original end is called with the captured arguments.
ExpressFinally(s) ==
    LET s1 == [s EXCEPT !.res.end = "original", !.pc = "done"]
    IN  IF s1.res.deferred = <<>> THEN s1
        ELSE OriginalEnd(s1, s1.res.deferred[1])

\* The Express middleware from the return of acquirePayment to
\* `await deferred.promise`.
ExpressAfterAcquire(s) ==
    CASE s.acquireResult = "pending" -> s
      [] s.acquireResult = "undefined" -> ExpressFinally(ExpressPaywall(s))
      [] s.acquireResult = "acquired" ->
            CallHandler([s EXCEPT !.res.end = "patched"])
      [] OTHER -> ExpressFinally(ExpressCatch(s))

ExpressRequest(r) ==
    /\ adapter = "express" /\ mw.phase = "built"
    /\ r \in live /\ req[r].pc = "idle"
    /\ \E q \in HttpRequests :
         LET s0 == Routed(req[r], q) IN
         IF s0.route = 0
         THEN req' = [req EXCEPT ![r] = PassThrough(s0)]
         ELSE LET reqs == paymentRequirements(mw.instances[s0.route], q) IN
              \E matched \in MatcherResults(reqs) :
                req' = [req EXCEPT ![r] =
                          ExpressAfterAcquire(
                            acquirePayment(s0, reqs, paymentFromRequest(q),
                                           TRUE, canRenderPaywall(q), matched))]
    /\ UNCHANGED <<adapter, live, mw>>

ExpressVerified(r) ==
    /\ adapter = "express" /\ r \in live /\ req[r].pc = "verifying"
    /\ \E v \in VerifyResponses :
         req' = [req EXCEPT ![r] = ExpressAfterAcquire(acquirePaymentResume(req[r], v))]
    /\ UNCHANGED <<adapter, live, mw>>

\* The downstream handler ends the response (through the patched res.end),
\* the deferred promise resolves and the middleware goes on; it stays at
\* `await deferred.promise` for as long as the promise is unresolved.
ExpressAfterEnd(s, h) ==
    LET s1 == ResEnd([s EXCEPT !.handlerStatus = h.status,
                               !.res.status = h.status,
                               !.res.body = "handler",
                               !.res.headersSent = h.headersSent],
                     [body |-> "handler", json |-> <<>>])
    IN  IF s1.res.deferred = <<>> THEN s1
        ELSE IF s1.res.status >= 400
        THEN ExpressFinally(s1)
        ELSE [settle(s1) EXCEPT !.pc = "settling"]

ExpressHandlerEnds(r) ==
    /\ adapter = "express" /\ r \in live /\ req[r].pc = "handler"
    /\ \E h \in HandlerOutcomes :
         /\ h.kind = "returns"
         /\ req' = [req EXCEPT ![r] = ExpressAfterEnd(req[r], h)]
    /\ UNCHANGED <<adapter, live, mw>>

\* res.setHeader throws once the headers are on the wire.
ExpressAfterSettle(s, st) ==
    LET out == settleResult(s.payment[1], st)
        s1 == settleResume(s, st)
    IN  IF out.kind = "return"
        THEN IF s1.res.headersSent
             THEN ExpressFinally([s1 EXCEPT
                    !.escaped = Append(@, PlainError("ERR_HTTP_HEADERS_SENT"))])
             ELSE ExpressFinally(SetPaymentResponse(s1, out.settlement[1]))
        ELSE ExpressFinally(ExpressCatch(s1))

ExpressSettled(r) ==
    /\ adapter = "express" /\ r \in live /\ req[r].pc = "settling"
    /\ \E st \in SettleResponses :
         req' = [req EXCEPT ![r] = ExpressAfterSettle(req[r], st)]
    /\ UNCHANGED <<adapter, live, mw>>

\* ------------------------------------------- adapter: Next.js middleware
NextCatch(s) ==
    IF s.acquireResult = "Error" THEN Rethrow(s)
    ELSE JsonErrorResponse(s, LastRaised(s), FALSE)

\* NextResponse.next(): the response that lets routing continue.
NextResponseNext(s) == [s EXCEPT !.res.body = "next"]

\* The Next.js middleware from the return of acquirePayment to
\* `await payment.settle()`.
NextAfterAcquire(s) ==
    CASE s.acquireResult = "pending" -> s
      [] s.acquireResult = "undefined" -> PaywallResponse(s)
      [] s.acquireResult = "acquired" ->
            [settle(NextResponseNext(s)) EXCEPT !.pc = "settling"]
      [] OTHER -> NextCatch(s)

NextRequest(r) ==
    /\ adapter = "next" /\ mw.phase = "built"
    /\ r \in live /\ req[r].pc = "idle"
    /\ \E q \in HttpRequests :
         LET s0 == Routed(req[r], q) IN
         IF s0.route = 0
         THEN req' = [req EXCEPT ![r] =
                        [NextResponseNext(s0) EXCEPT !.pc = "responded"]]
         ELSE LET reqs == paymentRequirements(mw.instances[s0.route], q) IN
              \E matched \in MatcherResults(reqs) :
                req' = [req EXCEPT ![r] =
                          NextAfterAcquire(
                            acquirePayment(s0, reqs, paymentFromRequest(q),
                                           TRUE, canRenderPaywall(q), matched))]
    /\ UNCHANGED <<adapter, live, mw>>

NextVerified(r) ==
    /\ adapter = "next" /\ r \in live /\ req[r].pc = "verifying"
    /\ \E v \in VerifyResponses :
         req' = [req EXCEPT ![r] = NextAfterAcquire(acquirePaymentResume(req[r], v))]
    /\ UNCHANGED <<adapter, live, mw>>

NextAfterSettle(s, st) ==
    LET out == settleResult(s.payment[1], st)
        s1 == settleResume(s, st)
    IN  IF out.kind = "return"
        THEN [SetPaymentResponse(s1, out.settlement[1]) EXCEPT !.pc = "responded"]
        ELSE NextCatch(s1)

NextSettled(r) ==
    /\ adapter = "next" /\ r \in live /\ req[r].pc = "settling"
    /\ \E st \in SettleResponses :
         req' = [req EXCEPT ![r] = NextAfterSettle(req[r], st)]
    /\ UNCHANGED <<adapter, live, mw>>

\* The route the request was for, run by the framework: it answers, or it
\* raises and the framework answers 500 in its place.  The middleware has
\* returned by then, so nothing it could catch or rethrow is left.
NextRouteEnds(s, h) ==
    IF h.kind = "throws"
    THEN [Log(s, "next") EXCEPT !.handlerCalls = @ + 1,
                                !.handlerThrew = TRUE,
                                !.res.status = 500,
                                !.res.body = "error",
                                !.pc = "done"]
    ELSE [Log(s, "next") EXCEPT !.handlerCalls = @ + 1,
                                !.handlerStatus = h.status,
                                !.res.status = h.status,
                                !.res.body = "handler",
                                !.pc = "done"]

\* The middleware has returned NextResponse.next(): the framework now runs
\* the route the request was for.
NextRoute(r) ==
    /\ adapter = "next" /\ r \in live /\ req[r].pc = "responded"
    /\ \E h \in HandlerOutcomes :
         /\ ~h.headersSent
         /\ req' = [req EXCEPT ![r] = NextRouteEnds(req[r], h)]
    /\ UNCHANGED <<adapter, live, mw>>

\* ----------------------------------------------- adapter: Next.js withPayment
WithPaymentAfterAcquire(s) ==
    CASE s.acquireResult = "pending" -> s
      [] s.acquireResult = "undefined" -> PaywallResponse(s)
      [] s.acquireResult = "acquired" -> CallHandler(s)
      [] OTHER -> NextCatch(s)

WithPaymentRequest(r) ==
    /\ adapter = "withPayment" /\ mw.phase = "built"
    /\ r \in live /\ req[r].pc = "idle"
    /\ \E q \in HttpRequests :
         LET s0 == [req[r] EXCEPT !.request = q]
             reqs == paymentRequirements(mw.instances[1], q)
         IN  \E matched \in MatcherResults(reqs) :
               req' = [req EXCEPT ![r] =
                         WithPaymentAfterAcquire(
                           acquirePayment(s0, reqs, paymentFromRequest(q),
                                          TRUE, canRenderPaywall(q), matched))]
    /\ UNCHANGED <<adapter, live, mw>>

WithPaymentVerified(r) ==
    /\ adapter = "withPayment" /\ r \in live /\ req[r].pc = "verifying"
    /\ \E v \in VerifyResponses :
         req' = [req EXCEPT ![r] =
                   WithPaymentAfterAcquire(acquirePaymentResume(req[r], v))]
    /\ UNCHANGED <<adapter, live, mw>>

\* withPayment after `await handler(request)`: settle follows at once.
WithPaymentAfterHandler(s, h) ==
    IF h.kind = "throws"
    THEN Rethrow([s EXCEPT !.handlerThrew = TRUE,
                           !.escaped = Append(@, HandlerError)])
    ELSE LET s1 == [s EXCEPT !.handlerStatus = h.status,
                             !.res.status = h.status, !.res.body = "handler"]
         IN  [settle(s1) EXCEPT !.pc = "settling"]

WithPaymentHandlerReturns(r) ==
    /\ adapter = "withPayment" /\ r \in live /\ req[r].pc = "handler"
    /\ \E h \in HandlerOutcomes :
         /\ ~h.headersSent
         /\ req' = [req EXCEPT ![r] = WithPaymentAfterHandler(req[r], h)]
    /\ UNCHANGED <<adapter, live, mw>>

WithPaymentAfterSettle(s, st) ==
    LET out == settleResult(s.payment[1], st)
        s1 == settleResume(s, st)
    IN  IF out.kind = "return"
        THEN [SetPaymentResponse(s1, out.settlement[1]) EXCEPT !.pc = "done"]
        ELSE NextCatch(s1)

WithPaymentSettled(r) ==
    /\ adapter = "withPayment" /\ r \in live /\ req[r].pc = "settling"
    /\ \E st \in SettleResponses :
         req' = [req EXCEPT ![r] = WithPaymentAfterSettle(req[r], st)]
    /\ UNCHANGED <<adapter, live, mw>>

\* ------------------------------------------------ direct use of the core
\* A caller that drives PaymentMiddleware and AcquiredPayment itself, with
\* its own extractor, paywall predicate (possibly none) and requirement list.
DirectAfterAcquire(s) ==
    CASE s.acquireResult = "pending" -> s
      [] s.acquireResult = "acquired" -> [s EXCEPT !.pc = "acquired"]
      [] OTHER -> [s EXCEPT !.pc = "done"]

DirectAcquire(r) ==
    /\ adapter = "direct" /\ mw.phase = "built"
    /\ r \in live /\ req[r].pc = "idle"
    /\ \E reqs \in DirectRequirementLists, extracted \in ExtractorOutcomes,
          hasPredicate \in BOOLEAN, renderable \in BOOLEAN :
         \E matched \in MatcherResults(reqs) :
           req' = [req EXCEPT ![r] =
                     DirectAfterAcquire(
                       acquirePayment(req[r], reqs, extracted, hasPredicate,
                                      renderable, matched))]
    /\ UNCHANGED <<adapter, live, mw>>

DirectVerified(r) ==
    /\ adapter = "direct" /\ r \in live /\ req[r].pc = "verifying"
    /\ \E v \in VerifyResponses :
         req' = [req EXCEPT ![r] = DirectAfterAcquire(acquirePaymentResume(req[r], v))]
    /\ UNCHANGED <<adapter, live, mw>>

\* payment.settle() called by the caller; nothing in AcquiredPayment stops a
\* second call, whether or not the first has answered.
DirectSettle(r) ==
    /\ adapter = "direct" /\ r \in live /\ req[r].pc = "acquired"
    /\ Len(req[r].settleArgs) < MaxSettleCalls
    /\ req' = [req EXCEPT ![r] = settle(req[r])]
    /\ UNCHANGED <<adapter, live, mw>>

DirectSettled(r) ==
    /\ adapter = "direct" /\ r \in live /\ req[r].pc = "acquired"
    /\ \E i \in 1..Len(req[r].inFlight) : req[r].inFlight[i] = "settle"
    /\ \E st \in SettleResponses :
         req' = [req EXCEPT ![r] = settleResume(req[r], st)]
    /\ UNCHANGED <<adapter, live, mw>>

\* The requests in process: one, or in Hono also two at the same time on the
\* same middleware instances.
LiveSets(caller) ==
    IF caller = "hono" THEN {{1}, {1, 2}} ELSE {{1}}

\* The price of a route replaced: route tables in which one route cannot be
\* built, by a price the converter cannot read or by a token whose asset is
\* not an address.
InvalidPrices == {"not a price", TokenPrice}

RoutesConfigs ==
    {RoutesConfig}
      \cup { [RoutesConfig EXCEPT ![i].price = p] :
               i \in 1..Len(RoutesConfig), p \in InvalidPrices }

\* ------------------------------------------------------------ specification
\* The configurations each caller constructs its middleware from.
CallerConfigs(caller) ==
    CASE caller \in RoutedAdapters ->
           {[i \in 1..Len(routes) |-> RouteMiddlewareConfig(routes[i])] :
              routes \in RoutesConfigs}
      [] caller = "withPayment" -> {<<WithPaymentMiddlewareConfig>>}
      [] caller = "direct" -> {<<DirectConfig>>}
      [] caller = "requirements" -> {<<c>> : c \in RequirementsConfigs}
      [] OTHER -> {<<c>> : c \in ConstructConfigs}

\* PaymentMiddleware.forRoutes of the routed adapters, `new PaymentMiddleware`
\* of the others: it runs once, before any request is served.
Construct ==
    /\ mw.phase = "configured"
    /\ mw' = forRoutes(mw.configs)
    /\ UNCHANGED <<adapter, live, req>>

\* A caller calls paymentRequirements(request) on its instance and keeps the
\* list it gets back.
CallPaymentRequirements ==
    /\ adapter = "requirements" /\ mw.phase = "built"
    /\ Len(mw.calls) < MaxCalls
    /\ \E q \in CallRequests : mw' = Called(mw, q)
    /\ UNCHANGED <<adapter, live, req>>

\* The caller writes to a requirement object it got back earlier.
UseReturned ==
    /\ adapter = "requirements" /\ mw.calls # <<>>
    /\ \E i \in 1..Len(mw.calls), w \in Writes :
         /\ w = "outputSchema" =>
              mw.calls[i].object.outputSchema = OutputSchemaRef
         /\ mw' = Write(mw, i, w)
    /\ UNCHANGED <<adapter, live, req>>

Init ==
    /\ adapter \in Callers
    /\ live \in LiveSets(adapter)
    /\ mw \in {Configured(configs) : configs \in CallerConfigs(adapter)}
    /\ req = [r \in Requests |-> InitReq]

Next ==
    \/ Construct
    \/ CallPaymentRequirements
    \/ UseReturned
    \/ \E r \in Requests :
        \/ HonoRequest(r)
        \/ HonoVerified(r)
        \/ HonoNextReturns(r)
        \/ HonoSettled(r)
        \/ ExpressRequest(r)
        \/ ExpressVerified(r)
        \/ ExpressHandlerEnds(r)
        \/ ExpressSettled(r)
        \/ NextRequest(r)
        \/ NextVerified(r)
        \/ NextSettled(r)
        \/ NextRoute(r)
        \/ WithPaymentRequest(r)
        \/ WithPaymentVerified(r)
        \/ WithPaymentHandlerReturns(r)
        \/ WithPaymentSettled(r)
        \/ DirectAcquire(r)
        \/ DirectVerified(r)
        \/ DirectSettle(r)
        \/ DirectSettled(r)

Spec == Init /\ [][Next]_vars

\* The same program when the downstream handler of the Express adapter ends
\* every response it is given and the facilitator answers every settle call.
FairSpec ==
    /\ Init /\ [][Next]_vars
    /\ \A r \in Requests :
         /\ WF_vars(ExpressHandlerEnds(r))
         /\ WF_vars(ExpressSettled(r))

\* ================================================================ properties
AcquireEvents ==
    {"paymentFromRequest", "canRenderPaywall",
     "findMatchingPaymentRequirements", "verify"}

IsAcquireEvent(e) == e \in AcquireEvents

\* The calls acquirePayment made, in the order it made them.
AcquireTrace(s) == SelectSeq(s.trace, IsAcquireEvent)

Occurs(q, e) == \E i \in 1..Len(q) : q[i] = e

IndexOf(q, e) == IF Occurs(q, e) THEN CHOOSE i \in 1..Len(q) : q[i] = e ELSE 0

\* The request is for something an adapter protects.
Protected(s) ==
    /\ adapter \in Adapters
    /\ s.pc # "idle"
    /\ (adapter = "withPayment" \/ s.route # 0)

VerifiedValid(s) ==
    /\ s.verification # <<>>
    /\ s.verification[1].kind = "resolve"
    /\ s.verification[1].isValid
    /\ ~Occurs(s.inFlight, "verify")

NoResponse == [status |-> 0, body |-> "none", json |-> <<>>, xPaymentResponse |-> <<>>]

\* What the client receives once the middleware is done with the request.
Delivered(s) ==
    IF adapter = "express"
    THEN IF s.res.sent = <<>> THEN NoResponse ELSE s.res.sent[1]
    ELSE IF s.pc = "done"
    THEN [status |-> s.res.status, body |-> s.res.body, json |-> s.res.json,
          xPaymentResponse |-> s.res.xPaymentResponse]
    ELSE NoResponse

\* C1: on a protected route the downstream handler runs only after the
\* verifier answered isValid=true for the request's payload; when
\* acquirePayment ends in the paywall sentinel or in an error, it never runs.
C1_NoUnpaidAccess ==
    \A r \in Requests :
      LET s == req[r] IN
      Protected(s) =>
        /\ s.handlerCalls > 0 =>
             /\ VerifiedValid(s)
             /\ s.acquireResult = "acquired"
             /\ Len(s.verifyArgs) = 1
             /\ s.verifyArgs[1].payload = s.extracted.payload
        /\ s.acquireResult \in {"undefined", "X402Error", "Error", "pending"} =>
             s.handlerCalls = 0

C1_Witness ==
    \E r \in Requests :
      /\ Protected(req[r])
      /\ adapter = "express"
      /\ req[r].handlerCalls = 1
      /\ VerifiedValid(req[r])

\* C2: in the Hono and Express adapters a verified request whose handler
\* ends with status >= 400 is never settled and keeps the handler's status.
C2_NoSettleOnHandlerError ==
    \A r \in Requests :
      LET s == req[r] IN
      (adapter \in {"hono", "express"} /\ s.payment # <<>> /\ s.handlerStatus >= 400) =>
        /\ s.settleArgs = <<>>
        /\ s.res.status = s.handlerStatus
        /\ s.res.body = "handler"
        /\ \A i \in 1..Len(s.res.sent) :
             s.res.sent[i].status = s.handlerStatus /\ s.res.sent[i].body = "handler"

C2_Witness ==
    \E r \in Requests :
      /\ adapter = "hono"
      /\ req[r].payment # <<>>
      /\ req[r].handlerStatus = 400
      /\ req[r].pc = "done"

\* C3: in withPayment a request whose handler answers with status >= 400 is
\* never settled.
C3_WithPaymentNoSettleOnError ==
    \A r \in Requests :
      (adapter = "withPayment" /\ req[r].handlerStatus >= 400) =>
        req[r].settleArgs = <<>>

C5_AtMostOnce ==
    \A r \in Requests :
      adapter \in Adapters =>
        /\ Len(req[r].verifyArgs) <= 1
        /\ Len(req[r].settleArgs) <= 1

C5_Witness ==
    \E r \in Requests :
      /\ adapter \in Adapters
      /\ req[r].pc = "done"
      /\ Len(req[r].settleArgs) = 1
      /\ req[r].settlements = <<>>
      /\ req[r].inFlight = <<>>

\* C6: acquirePayment extracts first, then asks the paywall predicate (only
\* without a payload) or the matcher (only with one), then the verifier (only
\* with a selected requirement); nothing follows a step that short-circuits.
C6_AcquireOrder ==
    \A r \in Requests :
      LET s == req[r]
          t == AcquireTrace(s)
      IN  /\ t \in { <<>>,
                     <<"paymentFromRequest">>,
                     <<"paymentFromRequest", "canRenderPaywall">>,
                     <<"paymentFromRequest", "findMatchingPaymentRequirements">>,
                     <<"paymentFromRequest", "findMatchingPaymentRequirements", "verify">> }
          /\ Occurs(t, "canRenderPaywall") => s.extracted.kind = "absent"
          /\ Occurs(t, "findMatchingPaymentRequirements") => s.extracted.kind = "payload"
          /\ Occurs(t, "verify") => (s.matcher.result # <<>> /\ s.selected = s.matcher.result)
          /\ s.extracted.kind = "throws" => t = <<"paymentFromRequest">>
          /\ (s.matcher.asked /\ s.matcher.result = <<>>) =>
               t = <<"paymentFromRequest", "findMatchingPaymentRequirements">>

C6_Witness ==
    \E r \in Requests :
      AcquireTrace(req[r]) =
        <<"paymentFromRequest", "findMatchingPaymentRequirements", "verify">>

\* C7: without a payload acquirePayment returns the "no payment" sentinel when
\* the paywall predicate says true and raises "X-PAYMENT header is required"
\* when it says false; the verifier is not called either way.
C7_NoPayload ==
    \A r \in Requests :
      LET s == req[r] IN
      s.extracted.kind = "absent" =>
        /\ s.verifyArgs = <<>>
        /\ s.payment = <<>>
        /\ s.predicate = "true" =>
             (s.acquireResult = "undefined" /\ s.raised = <<>> /\ s.escaped = <<>>)
        /\ s.predicate = "false" =>
             /\ s.acquireResult = "X402Error"
             /\ Len(s.raised) = 1
             /\ s.raised[1].name = "X402Error"
             /\ s.raised[1].message = "X-PAYMENT header is required"

C7_Witness ==
    \E r \in Requests :
      /\ req[r].extracted.kind = "absent"
      /\ req[r].predicate = "true"
      /\ req[r].acquireResult = "undefined"

\* C8: with a payload the matcher selects nothing for, acquirePayment raises
\* "Unable to find matching payment requirements" carrying the requirement
\* list it was given, and the verifier is never called.
C8_NoMatchingRequirement ==
    \A r \in Requests :
      LET s == req[r] IN
      (s.matcher.asked /\ s.matcher.result = <<>>) =>
        /\ s.acquireResult = "X402Error"
        /\ Len(s.raised) = 1
        /\ s.raised[1].name = "X402Error"
        /\ s.raised[1].message = "Unable to find matching payment requirements"
        /\ s.raised[1].accepts = s.given
        /\ s.verifyArgs = <<>>

C8_Witness ==
    \E r \in Requests :
      /\ adapter = "direct"
      /\ req[r].matcher.asked
      /\ req[r].matcher.result = <<>>
      /\ Len(req[r].given) = 2

\* C9: when the verifier answers isValid=false, acquirePayment raises an
\* X402Error whose message is the invalidReason ("Payment verification failed"
\* without one) and whose payer is the verifier's; no AcquiredPayment exists.
C9_InvalidVerification ==
    \A r \in Requests :
      LET s == req[r] IN
      (s.verification # <<>> /\ s.verification[1].kind = "resolve"
                             /\ ~s.verification[1].isValid) =>
        /\ s.payment = <<>>
        /\ s.settleArgs = <<>>
        /\ s.acquireResult = "X402Error"
        /\ Len(s.raised) = 1
        /\ s.raised[1].name = "X402Error"
        /\ s.raised[1].message =
             (IF s.verification[1].invalidReason = Undefined
              THEN "Payment verification failed"
              ELSE s.verification[1].invalidReason)
        /\ s.raised[1].payer = s.verification[1].payer

C9_Witness ==
    \E r \in Requests :
      /\ req[r].verification # <<>>
      /\ req[r].verification[1].kind = "resolve"
      /\ ~req[r].verification[1].isValid
      /\ req[r].verification[1].invalidReason = Undefined
      /\ req[r].verification[1].payer = "0xdef"

\* C10: when the extractor raises, acquirePayment raises an X402Error carrying
\* that error, the full requirement list and no payer; predicate, matcher and
\* verifier are not called, and an adapter answers 402 with the extractor's
\* error message as the JSON error.
C10_ExtractorFailure ==
    \A r \in Requests :
      LET s == req[r] IN
      s.extracted.kind = "throws" =>
        /\ s.acquireResult = "X402Error"
        /\ Len(s.raised) = 1
        /\ s.raised[1].name = "X402Error"
        /\ s.raised[1].error = ErrorObject(s.extracted.error)
        /\ s.raised[1].accepts = s.given
        /\ s.raised[1].payer = Undefined
        /\ s.trace = <<"paymentFromRequest">>
        /\ s.predicate = "notasked" /\ ~s.matcher.asked /\ s.verifyArgs = <<>>
        /\ adapter \in Adapters =>
             /\ Delivered(s).status = 402
             /\ Len(Delivered(s).json) = 1
             /\ Delivered(s).json[1].error = s.extracted.error
             /\ Delivered(s).json[1].accepts = s.given

C10_Witness ==
    \E r \in Requests :
      /\ adapter = "hono"
      /\ req[r].extracted.kind = "throws"
      /\ req[r].pc = "done"

\* C11: when the verifier answers valid, acquirePayment returns an
\* AcquiredPayment whose payload is the extracted payload, whose selected
\* requirement is the matcher's result and whose requirements are the list it
\* was passed; at the moment it returns no settle call has been made.
C11_AcquiredPayment ==
    \A r \in Requests :
      LET s == req[r]
          expected == [payload |-> s.extracted.payload,
                       selected |-> s.matcher.result[1],
                       requirements |-> s.given]
      IN
      /\ s.pc = "verifying" =>
           \A v \in VerifyResponses :
             (v.kind = "resolve" /\ v.isValid) =>
               LET s2 == acquirePaymentResume(s, v) IN
               /\ s2.acquireResult = "acquired"
               /\ s2.payment = <<expected>>
               /\ s2.raised = <<>> /\ s2.escaped = <<>>
               /\ s2.settleArgs = <<>>
               /\ ~Occurs(s2.trace, "settle")
      /\ s.payment # <<>> =>
           /\ VerifiedValid(s)
           /\ s.acquireResult = "acquired"
           /\ s.payment = <<expected>>

C11_Witness ==
    \E r \in Requests :
      /\ adapter = "direct"
      /\ req[r].pc = "acquired"
      /\ req[r].payment # <<>>
      /\ Len(req[r].given) = 2
      /\ req[r].given[1] # req[r].given[2]
      /\ req[r].payment[1].selected = req[r].given[2]
      /\ req[r].settleArgs = <<>>

\* The settler's answers that report success, and the others, in the order
\* they arrived.  An acquired payment means acquirePayment raised nothing, so
\* the errors of such a request are those of its settle() calls, in order.
IsSuccess(st) == st.kind = "resolve" /\ st.success

IsFailure(st) == ~IsSuccess(st)

SuccessReplies(s) == SelectSeq(s.settleReplies, IsSuccess)

FailedReplies(s) == SelectSeq(s.settleReplies, IsFailure)

\* C12: when the settler answers success, settle() returns success, transaction,
\* network and payer exactly as the settler returned them, and raises nothing.
C12_SettleSuccess ==
    \A r \in Requests :
      LET s == req[r]
          ok == SuccessReplies(s)
      IN
      s.settleReplies # <<>> =>
        /\ Len(s.settlements) = Len(ok)
        /\ \A i \in 1..Len(ok) :
             s.settlements[i] = [success |-> TRUE,
                                 transaction |-> ok[i].transaction,
                                 network |-> ok[i].network,
                                 payer |-> ok[i].payer]
        /\ Len(s.raised) = Len(s.settleReplies) - Len(ok)

C12_Witness ==
    \E r \in Requests :
      /\ adapter = "withPayment"
      /\ Len(req[r].settleReplies) = 1
      /\ IsSuccess(req[r].settleReplies[1])
      /\ req[r].payment[1].selected.network # req[r].settleReplies[1].network
      /\ Len(req[r].settlements) = 1
      /\ req[r].settlements[1].payer = "0xabc"

\* C13: when the settler answers success false, settle() raises an X402Error
\* whose message is "Settlement failed: " followed by the settler's
\* errorReason, carrying the full requirement list and the payer the settler
\* reported; no Settlement is returned for that answer.
C13_SettleFailure ==
    \A r \in Requests :
      LET s == req[r]
          failed == FailedReplies(s)
      IN
      s.settleReplies # <<>> =>
        /\ Len(s.raised) = Len(failed)
        /\ Len(s.settlements) = Len(s.settleReplies) - Len(failed)
        /\ \A i \in 1..Len(failed) :
             failed[i].kind = "resolve" =>
               /\ s.raised[i].name = "X402Error"
               /\ s.raised[i].message =
                    "Settlement failed: " \o failed[i].errorReason
               /\ s.raised[i].error.message = s.raised[i].message
               /\ s.raised[i].accepts = s.given
               /\ s.raised[i].payer = failed[i].payer

C13_Witness ==
    \E r \in Requests :
      /\ adapter = "direct"
      /\ Len(req[r].given) = 2
      /\ Len(req[r].raised) = 1
      /\ req[r].settlements = <<>>
      /\ req[r].raised[1].message = "Settlement failed: insufficient_funds"
      /\ req[r].raised[1].payer = "0xabc"

\* C14: when the settler call rejects, settle() raises an X402Error carrying
\* the original error, the full requirement list and no payer, and through an
\* adapter the client gets a 402 whose JSON error is the original error's
\* message.
C14_SettlerRejects ==
    \A r \in Requests :
      LET s == req[r]
          failed == FailedReplies(s)
      IN
      \A i \in 1..Len(failed) :
        failed[i].kind = "reject" =>
          /\ Len(s.raised) >= i
          /\ s.raised[i].name = "X402Error"
          /\ s.raised[i].error = ErrorObject(failed[i].error)
          /\ s.raised[i].accepts = s.given
          /\ s.raised[i].payer = Undefined
          /\ (adapter \in Adapters /\ s.pc = "done") =>
               /\ Delivered(s).status = 402
               /\ Len(Delivered(s).json) = 1
               /\ Delivered(s).json[1].error = failed[i].error

\* C15: every X402Error raised for a request, by acquirePayment or by
\* settle(), carries as accepts exactly the requirement list that was passed
\* to acquirePayment.
C15_AcceptsFullList ==
    \A r \in Requests :
      LET s == req[r] IN
      \A i \in 1..Len(s.raised) :
        s.raised[i].name = "X402Error" => s.raised[i].accepts = s.given

C15_Witness ==
    \E r \in Requests :
      /\ adapter = "direct"
      /\ Len(req[r].given) = 2
      /\ req[r].given[1] # req[r].given[2]
      /\ req[r].payment # <<>>
      /\ Len(req[r].raised) = 2
      /\ req[r].raised[1].error.type = "Error"
      /\ req[r].raised[2].error.type = "string"

\* C16: X402Error.toJSON() yields exactly x402Version, error, accepts and
\* payer: x402Version is 1, error is the message of a wrapped Error or else
\* the string itself, accepts and payer are the ones the error carries; a 402
\* JSON body an adapter delivers is that record for an error the request
\* raised.
C16_ToJSON ==
    \A r \in Requests :
      LET s == req[r]
          Json(e) == [x402Version |-> 1, error |-> e.error.message,
                      accepts |-> e.accepts, payer |-> e.payer]
      IN
      /\ \A i \in 1..Len(s.raised) :
           /\ DOMAIN toJSON(s.raised[i]) =
                {"x402Version", "error", "accepts", "payer"}
           /\ toJSON(s.raised[i]) = Json(s.raised[i])
      /\ \A k \in 1..Len(s.res.json) :
           \E i \in 1..Len(s.raised) : s.res.json[k] = Json(s.raised[i])

C16_Witness ==
    \E r \in Requests :
      /\ adapter = "next"
      /\ req[r].pc = "done"
      /\ Len(req[r].res.json) = 1
      /\ req[r].res.json[1].error = "Settlement failed: insufficient_funds"
      /\ req[r].res.json[1].payer = "0xabc"
      /\ Len(req[r].res.json[1].accepts) = 1

\* ---- routing
MaxRoutes == 2

RoutePatterns == [verb : {"GET", "POST", "*"}, path : Paths]

RouteTables == SeqsUpTo(RoutePatterns, MaxRoutes)

MatchMethods == Methods \cup {"get", "POST"}

\* The pattern matches the path, and its verb is the wildcard or the method
\* (compared in upper case).
PatternMatches(pattern, path, method) ==
    /\ pattern.path = path
    /\ (pattern.verb = "*" \/ pattern.verb = ToUpperCase(method))

\* i is the first pattern of the table that matches, 0 when none does.
IsFirstMatch(i, patterns, path, method) ==
    /\ i \in 0..Len(patterns)
    /\ i # 0 => PatternMatches(patterns[i], path, method)
    /\ \A j \in 1..Len(patterns) :
         (i = 0 \/ j < i) => ~PatternMatches(patterns[j], path, method)

\* C17: match returns the middleware of the first pattern, in declaration
\* order, whose path matches and whose verb is the wildcard or the method,
\* and nothing when no pattern matches; a later overlapping pattern is never
\* chosen over an earlier one.
C17_FirstMatchWins ==
    /\ mw.phase = "configured" =>
         \A path \in Paths, method \in MatchMethods :
           /\ IsFirstMatch(match(path, method), RoutesConfig, path, method)
           /\ \A patterns \in RouteTables :
                IsFirstMatch(findMatchingRoute(patterns, path, method),
                             patterns, path, method)
    /\ \A r \in Requests :
         LET s == req[r] IN
         (adapter \in RoutedAdapters /\ s.pc # "idle") =>
           /\ IsFirstMatch(s.route, RoutesConfig, s.request.path,
                           s.request.method)
           /\ s.given # <<>> =>
                s.given =
                  paymentRequirements(
                    constructor(RouteMiddlewareConfig(RoutesConfig[s.route]))
                      .instance[1],
                    s.request)

C17_Witness ==
    \E r \in Requests :
      /\ adapter = "express"
      /\ req[r].request.path = "/weather"
      /\ req[r].request.method = "GET"
      /\ PatternMatches(RoutesConfig[1], "/weather", "GET")
      /\ PatternMatches(RoutesConfig[2], "/weather", "GET")
      /\ req[r].route = 1
      /\ req[r].given # <<>>
      /\ req[r].given[1].network = RoutesConfig[1].network

\* C18: a request that matches no route passes through every routed adapter
\* untouched: the downstream handler is invoked, the extractor, the paywall
\* predicate, the verifier and the settler are never called, no 402 is
\* produced and no X-PAYMENT-RESPONSE header is set.
C18_PassThrough ==
    \A r \in Requests :
      LET s == req[r] IN
      (adapter \in RoutedAdapters /\ s.pc # "idle" /\ s.route = 0) =>
        /\ s.pc \in {"responded", "done"}
        /\ s.pc = "done" => s.handlerCalls = 1
        /\ s.handlerCalls = 1 <=> Occurs(s.trace, "next")
        /\ \A i \in 1..Len(s.trace) : s.trace[i] = "next"
        /\ s.extracted = NotExtracted
        /\ s.predicate = "notasked"
        /\ ~s.matcher.asked
        /\ s.verifyArgs = <<>> /\ s.settleArgs = <<>>
        /\ s.raised = <<>> /\ s.escaped = <<>>
        /\ s.res.json = <<>>
        /\ s.res.body \notin {"x402", "paywall"}
        /\ s.res.status # 402 /\ Delivered(s).status # 402
        /\ s.res.xPaymentResponse = <<>>
        /\ Delivered(s).xPaymentResponse = <<>>

C18_Witness ==
    \E r \in Requests :
      /\ adapter = "hono"
      /\ req[r].pc = "done"
      /\ req[r].request.path = "/free"
      /\ req[r].request.xPayment = "encoded-p1"
      /\ req[r].route = 0
      /\ req[r].handlerCalls = 1

\* ---- construction
\* The configuration of a caller that constructs one PaymentMiddleware, once
\* the constructor has run.
Constructed == adapter = "construct" /\ mw.phase # "configured"

\* The configuration names a resource: a static one or a resolver.
HasResource(config) ==
    \/ config.resource \notin {Undefined, ""}
    \/ config.resourceFromRequest

\* C19: constructing a PaymentMiddleware fails with
\* PaymentMiddlewareConfigError("Either config.resource or resourceFromRequest
\* must be provided") when neither is given, and with a
\* PaymentMiddlewareConfigError carrying the converter's error verbatim when
\* the price converter reports one; in neither case is an instance produced.
C19_ConfigError ==
    Constructed =>
      LET config == mw.configs[1]
          converted == processPriceToAtomicAmountFn(config)
      IN
      /\ (config.resource = Undefined /\ ~config.resourceFromRequest) =>
           /\ mw.phase = "failed"
           /\ mw.instances = <<>>
           /\ mw.thrown =
                << [name |-> "PaymentMiddlewareConfigError",
                    message |-> "Either config.resource or resourceFromRequest must be provided"] >>
      /\ (HasResource(config) /\ converted.error # Undefined) =>
           /\ mw.phase = "failed"
           /\ mw.instances = <<>>
           /\ mw.thrown = << [name |-> "PaymentMiddlewareConfigError",
                              message |-> converted.error] >>

C19_Witness ==
    /\ Constructed
    /\ mw.configs[1].resource = "https://example.com/resource.json"
    /\ mw.configs[1].priceFn = "oops"
    /\ mw.phase = "failed"
    /\ mw.thrown[1].message = "Oops"

\* C20: a malformed payTo address, or a price whose asset address is
\* malformed, makes construction fail with a PaymentMiddlewareConfigError.
C20_InvalidAddressIsConfigError ==
    Constructed =>
      LET config == mw.configs[1]
          converted == processPriceToAtomicAmountFn(config)
      IN
      (/\ HasResource(config)
       /\ converted.error = Undefined
       /\ (~isAddress(config.payTo) \/ ~isAddress(converted.asset))) =>
        /\ mw.phase = "failed"
        /\ mw.instances = <<>>
        /\ Len(mw.thrown) = 1
        /\ mw.thrown[1].name = "PaymentMiddlewareConfigError"

\* ---- the requirement template
\* C21: in the requirement built for a route, description is "", mimeType is
\* "application/json", maxTimeoutSeconds is 300 and outputSchema is unset when
\* the configuration leaves the field out; a configured value, a falsy one
\* included, is carried through unchanged; scheme is always "exact".
C21_Defaults ==
    mw.phase = "built" =>
      \A i \in 1..Len(mw.instances) :
        LET config == mw.configs[i]
            built == mw.instances[i].paymentReq
        IN
        /\ built.scheme = "exact"
        /\ config.description = <<>> => built.description = ""
        /\ config.description # <<>> =>
             built.description = config.description[1]
        /\ config.mimeType = <<>> => built.mimeType = "application/json"
        /\ config.mimeType # <<>> => built.mimeType = config.mimeType[1]
        /\ config.maxTimeoutSeconds = <<>> => built.maxTimeoutSeconds = 300
        /\ config.maxTimeoutSeconds # <<>> =>
             built.maxTimeoutSeconds = config.maxTimeoutSeconds[1]
        /\ config.outputSchema = <<>> => built.outputSchema = Undefined
        /\ config.outputSchema # <<>> =>
             built.outputSchema = config.outputSchema[1]

C21_Witness ==
    /\ adapter = "construct"
    /\ mw.phase = "built"
    /\ mw.configs[1].description = <<>>
    /\ mw.configs[1].maxTimeoutSeconds = <<0>>
    /\ mw.configs[1].outputSchema # <<>>
    /\ mw.instances[1].paymentReq.maxTimeoutSeconds = 0
    /\ mw.instances[1].paymentReq.description = ""

\* C22: for every valid price and network the maxAmountRequired of the built
\* requirement is the price times 10^decimals (USDC: 10^6 = 1000000), printed
\* as an integer: "$0.01" gives "10000", "$0.12345" gives "123450", "$0.001"
\* gives "1000".  A price num/den is taken as num * (10^6 / den).
C22_AtomicAmount ==
    LET Expected(price) ==
          LET money == ParseMoney(price)
              den == Pow10(Len(money.fraction))
              num == money.whole * den
                       + ScaleFraction(money.fraction, 1, Len(money.fraction))
          IN  ToString(num * (1000000 \div den))
        Built(config) == constructor(config).instance[1].paymentReq
    IN
    /\ \A price \in MoneyPrices, network \in {"base", "base-sepolia"} :
         LET config == [WithOptions(FullConfig, NoOptions) EXCEPT
                          !.price = price, !.network = network]
         IN  Built(config).maxAmountRequired = Expected(price)
    /\ Built([WithOptions(FullConfig, NoOptions) EXCEPT !.price = "$0.01"])
         .maxAmountRequired = "10000"
    /\ Built(WithOptions(FullConfig, NoOptions)).maxAmountRequired = "123450"
    /\ Built([WithOptions(FullConfig, NoOptions) EXCEPT !.price = "$0.001"])
         .maxAmountRequired = "1000"
    /\ mw.phase = "built" =>
         \A i \in 1..Len(mw.instances) :
           mw.configs[i].price \in MoneyPrices =>
             mw.instances[i].paymentReq.maxAmountRequired =
               Expected(mw.configs[i].price)

C22_Witness ==
    /\ adapter = "construct"
    /\ mw.phase = "built"
    /\ mw.configs[1].price = "$0.12345"
    /\ mw.instances[1].paymentReq.maxAmountRequired = "123450"

\* ---------------------------------------------------------------- C23, C24
\* The instance of the caller that asks for requirements.
CallerInstance == mw.instances[1]

\* C23: every paymentRequirements(request) call returns a list of exactly one
\* requirement; across any sequence of calls each of its fields other than
\* resource holds the value the constructor computed (the price converter has
\* been called once, by the constructor, however many calls were made); its
\* resource is the static config.resource, or the request function's value
\* for the request of the call when only the function was configured.
C23_RequirementsPerCall ==
    (adapter = "requirements" /\ mw.phase = "built") =>
      LET config == mw.configs[1]
          template == paymentReq(config, processPriceToAtomicAmountFn(config))
      IN  /\ mw.converted = 1
          /\ \A i \in 1..Len(mw.calls) :
               LET c == mw.calls[i] IN
               /\ Len(c.returned) = 1
               /\ c.returned[1] = AssignResource(template, c.returned[1].resource)
               /\ config.resource \notin {Undefined, ""} =>
                    c.returned[1].resource = config.resource
               /\ (config.resource = Undefined /\ config.resourceFromRequest) =>
                    c.returned[1].resource = resourceFromRequest(c.request)

C23_Witness ==
    /\ adapter = "requirements"
    /\ Len(mw.calls) = 2
    /\ mw.configs[1].resource = Undefined
    /\ mw.calls[1].request.path = "/weather"
    /\ mw.calls[2].request.path = "/free"
    /\ mw.calls[1].returned[1].resource = "https://example.com/weather"
    /\ mw.calls[2].returned[1].resource = "https://example.com/free"
    /\ mw.calls[1].returned[1].maxAmountRequired = "123450"
    /\ mw.calls[2].returned[1].maxAmountRequired = "123450"

C25_HonoNoPaymentHeader ==
    \A r \in Requests :
      LET s == req[r]
          browser == /\ s.request.accept \in {"text/html", "*/*, text/html"}
                     /\ s.request.userAgent = "Mozilla/5.0"
      IN
      (adapter = "hono" /\ s.pc # "idle" /\ s.route # 0
         /\ s.request.xPayment = "") =>
        /\ s.pc = "done"
        /\ s.res.status = 402
        /\ s.handlerCalls = 0
        /\ s.escaped = <<>>
        /\ browser => s.res.body = "paywall" /\ s.res.json = <<>>
        /\ ~browser =>
             /\ s.res.body = "x402"
             /\ Len(s.res.json) = 1
             /\ s.res.json[1].x402Version = 1
             /\ s.res.json[1].error = "X-PAYMENT header is required"
             /\ s.res.json[1].payer = Undefined
             /\ s.res.json[1].accepts = s.given
             /\ Len(s.res.json[1].accepts) = 1
             /\ s.res.json[1].accepts[1].maxAmountRequired =
                  AtomicAmount(RoutesConfig[s.route].price)

C25_Witness ==
    \E r \in Requests :
      /\ adapter = "hono"
      /\ req[r].request.path = "/weather"
      /\ req[r].request.method = "GET"
      /\ req[r].request.xPayment = ""
      /\ req[r].request.accept = "*/*, text/html"
      /\ req[r].request.userAgent = "curl/8"
      /\ req[r].res.status = 402
      /\ req[r].res.json # <<>>
      /\ req[r].res.json[1].accepts[1].maxAmountRequired = "1000"

\* ---------------------------------------------------------------- C26, C27
\* C26: when the downstream handler raises after the payment was verified, no
\* settle call is ever made for the request, in any adapter, and the request
\* ends without an X402Error, a 402 or an error body from the core.
C26_NoSettleWhenHandlerRaises ==
    \A r \in Requests :
      LET s == req[r] IN
      (adapter \in Adapters /\ s.payment # <<>> /\ s.handlerThrew) =>
        /\ s.settleArgs = <<>>
        /\ s.raised = <<>>
        /\ s.res.status # 402
        /\ s.res.json = <<>>

\* C27: in every adapter settle is called only after the downstream handler
\* has run to completion and its final status was observed to be a success:
\* the handler is called before settle and the status it left is below 400
\* when settle is called.
C27_SettleAfterHandler ==
    \A r \in Requests :
      LET s == req[r] IN
      (adapter \in Adapters /\ Occurs(s.trace, "settle")) =>
        /\ Occurs(s.trace, "next")
        /\ IndexOf(s.trace, "next") < IndexOf(s.trace, "settle")
        /\ s.handlerStatus \in 1..399

\* --------------------------------------------------------------------- C28
\* C28: in the Hono adapter, when the handler succeeded and settlement then
\* fails (the settler rejects or answers success false), the response is
\* replaced by a 402 whose body is the X402Error JSON of that failure, and no
\* X-PAYMENT-RESPONSE header is set.
C28_HonoSettleFailure ==
    \A r \in Requests :
      LET s == req[r]
          failed == FailedReplies(s)
      IN
      (adapter = "hono" /\ failed # <<>>) =>
        /\ s.handlerStatus \in 1..399
        /\ s.pc = "done"
        /\ s.res.status = 402
        /\ s.res.body = "x402"
        /\ s.res.json =
             << [x402Version |-> 1,
                 error |-> IF failed[1].kind = "reject" THEN failed[1].error
                           ELSE "Settlement failed: " \o failed[1].errorReason,
                 accepts |-> s.given,
                 payer |-> failed[1].payer] >>
        /\ s.res.xPaymentResponse = <<>>
        /\ s.escaped = <<>>

C28_Witness ==
    \E r \in Requests :
      /\ adapter = "hono"
      /\ req[r].handlerStatus = 200
      /\ Len(req[r].settleReplies) = 1
      /\ req[r].settleReplies[1].kind = "reject"
      /\ req[r].res.status = 402
      /\ req[r].res.json # <<>>
      /\ req[r].res.json[1].error = "Settlement failed"

\* --------------------------------------------------------------------- C29
\* C29: in every adapter the response carries X-PAYMENT-RESPONSE if and only
\* if the settler was called for the request and answered success, the header
\* is made from the Settlement of that call, and a paywall, a 402, a
\* pass-through response or a response whose handler status is >= 400 never
\* carries it.
C29_PaymentResponseHeader ==
    \A r \in Requests :
      LET s == req[r]
          ok == SuccessReplies(s)
      IN
      adapter \in Adapters =>
        /\ s.res.xPaymentResponse # <<>> <=> ok # <<>>
        /\ s.res.xPaymentResponse # <<>> =>
             s.res.xPaymentResponse =
               << [success |-> TRUE, transaction |-> ok[1].transaction,
                   network |-> ok[1].network, payer |-> ok[1].payer] >>
        /\ (\/ s.res.body \in {"paywall", "x402"}
            \/ s.res.status = 402
            \/ (s.pc # "idle" /\ adapter \in RoutedAdapters /\ s.route = 0)
            \/ s.handlerStatus >= 400) =>
             /\ s.res.xPaymentResponse = <<>>
             /\ Delivered(s).xPaymentResponse = <<>>

\* --------------------------------------------------------------------- C30
\* C30: an error that is no X402Error and reaches an adapter (the verifier
\* call rejecting, the downstream handler raising inside the middleware,
\* res.setHeader refusing) leaves the middleware as the error it was: it is
\* thrown on, no 402 and no error body is made of it, and it is not dropped.
C30_OtherErrorsPropagate ==
    \A r \in Requests :
      LET s == req[r] IN
      adapter \in Adapters =>
        /\ \A i \in 1..Len(s.escaped) : s.escaped[i].name = "Error"
        /\ (s.verification # <<>> /\ s.verification[1].kind = "reject") =>
             /\ s.escaped = <<PlainError(s.verification[1].error)>>
             /\ s.raised = <<>>
             /\ s.res.status # 402 /\ s.res.json = <<>>
             /\ s.res.body \notin {"x402", "paywall"}
             /\ s.handlerCalls = 0
        /\ (s.handlerThrew /\ adapter \in {"hono", "withPayment"}) =>
             /\ s.escaped = <<HandlerError>>
             /\ s.raised = <<>>
             /\ s.res.status # 402 /\ s.res.json = <<>>
        /\ s.escaped # <<>> =>
             /\ s.pc = "done"
             /\ Delivered(s).status # 402
             /\ Delivered(s).json = <<>>

C30_Witness ==
    \E r \in Requests :
      /\ adapter = "express"
      /\ req[r].verification # <<>>
      /\ req[r].verification[1].kind = "reject"
      /\ req[r].escaped = <<PlainError("verify unreachable")>>
      /\ req[r].pc = "done"

\* --------------------------------------------------------------------- C31
\* What request s shows of itself follows from its own request and from the
\* answers its own extractor, predicate, matcher, verifier and settler gave.
OwnOutcome(s) ==
    LET own == paymentRequirements(mw.instances[s.route], s.request)
        failed == FailedReplies(s)
        ok == SuccessReplies(s)
    IN  /\ s.given = own
        /\ s.extracted = paymentFromRequest(s.request)
        /\ s.predicate # "notasked" =>
             s.predicate = (IF canRenderPaywall(s.request) THEN "true" ELSE "false")
        /\ \A i \in 1..Len(s.verifyArgs) :
             s.verifyArgs[i] = [payload |-> s.extracted.payload,
                                selected |-> s.matcher.result[1]]
        /\ s.payment # <<>> =>
             s.payment = << [payload |-> s.extracted.payload,
                             selected |-> s.matcher.result[1],
                             requirements |-> own] >>
        /\ \A i \in 1..Len(s.settleArgs) :
             s.settleArgs[i] = [payload |-> s.extracted.payload,
                                selected |-> s.matcher.result[1]]
        /\ \A i \in 1..Len(s.raised) :
             /\ s.raised[i].accepts = own
             /\ s.raised[i].payer =
                  (IF failed # <<>> THEN failed[1].payer
                   ELSE IF s.verification # <<>> THEN s.verification[1].payer
                   ELSE Undefined)
        /\ \A i \in 1..Len(s.settlements) : s.settlements[i].payer = ok[i].payer
        /\ \A i \in 1..Len(s.res.json) : s.res.json[i] = toJSON(s.raised[i])
        /\ \A i \in 1..Len(s.res.xPaymentResponse) :
             s.res.xPaymentResponse[i] = s.settlements[i]

\* A step of the middleware is a step of one request: the others stay as
\* they are.
OneRequestSteps ==
    \A r1, r2 \in Requests :
      (req'[r1] # req[r1] /\ req'[r2] # req[r2]) => r1 = r2

\* C31: requests are independent under every interleaving: with two requests
\* in process on the same middleware instances, for the same or for different
\* routes, the outcome of each (paywall, error and its contents, acquired
\* payment, arguments of verify and settle) follows from its own request and
\* the answers given to it, and no step of one request changes the other.
C31_RequestsIndependent ==
    /\ [](\A r \in Requests :
            (adapter = "hono" /\ req[r].pc # "idle" /\ req[r].route # 0) =>
              OwnOutcome(req[r]))
    /\ [][OneRequestSteps]_vars

C31_Witness ==
    /\ adapter = "hono" /\ live = {1, 2}
    /\ req[1].pc = "settling" /\ req[2].pc = "done"
    /\ req[1].route = 2 /\ req[2].route = 1
    /\ req[1].payment # <<>> /\ req[2].payment # <<>>
    /\ req[1].payment[1].payload = "p2"
    /\ req[2].payment[1].payload = "p1"
    /\ req[2].settleArgs # <<>>
    /\ req[2].raised # <<>>
    /\ req[2].raised[1].payer = "0xabc"
    /\ req[1].verification[1].payer = Undefined

\* --------------------------------------------------------------------- C32
\* C32: in the Express adapter, when the handler has ended its response with
\* the headers not yet sent and payment.settle() then raises an X402Error
\* (the settler rejects or answers success false), the client receives
\* status 402 with the X402Error JSON as body, not the handler's body.
C32_ExpressSettleFailure ==
    \A r \in Requests :
      LET s == req[r] IN
      (adapter = "express" /\ s.pc = "settling" /\ ~s.res.headersSent) =>
        \A st \in SettleResponses :
          IsFailure(st) =>
            LET s2 == ExpressAfterSettle(s, st) IN
            /\ Len(s2.res.sent) = 1
            /\ s2.res.sent[1].status = 402
            /\ s2.res.sent[1].body = "x402"
            /\ s2.res.sent[1].json = <<toJSON(LastRaised(s2))>>

\* --------------------------------------------------------------------- C33
\* C33: in the Express adapter, on every path out of the middleware for a
\* matched route res.end is the original function again; when the handler
\* ended the response, the original end is called exactly once, with the
\* arguments the handler passed, and not before settlement has completed or
\* been skipped.
C33_ExpressEndRestored ==
    \A r \in Requests :
      LET s == req[r] IN
      (adapter = "express" /\ s.pc # "idle" /\ s.route # 0) =>
        /\ s.pc = "done" => s.res.end = "original"
        /\ s.pc # "done" => s.res.sent = <<>>
        /\ s.res.sent # <<>> => s.inFlight = <<>>
        /\ s.res.deferred # <<>> =>
             /\ s.handlerCalls = 1
             /\ s.res.deferred[1].body = "handler"
             /\ s.pc = "done" =>
                  /\ Len(s.res.sent) = 1
                  /\ s.res.sent[1].body = s.res.deferred[1].body
                  /\ s.res.sent[1].json = s.res.deferred[1].json
        /\ Len(s.res.sent) <= 1

C33_Witness ==
    \E r \in Requests :
      /\ adapter = "express"
      /\ req[r].pc = "done"
      /\ req[r].res.end = "original"
      /\ FailedReplies(req[r]) # <<>>
      /\ req[r].res.deferred # <<>>
      /\ Len(req[r].res.sent) = 1
      /\ req[r].res.sent[1].body = "handler"

\* --------------------------------------------------------------------- C34
IsSettleCall(e) == e = "settle"

\* The invocations of settle() on the request's AcquiredPayment so far.
SettleInvocations(s) == Len(SelectSeq(s.trace, IsSettleCall))

\* C34: every invocation of AcquiredPayment.settle() calls the settler exactly
\* once and nothing guards against a repeated invocation: after k invocations
\* on one AcquiredPayment, one after the other or overlapping, the settler has
\* been called k times, every time with the payload and the selected
\* requirement of that payment, and every call is answered or outstanding.
C34_SettleCallsSettlerEachTime ==
    \A r \in Requests :
      LET s == req[r] IN
      /\ Len(s.settleArgs) = SettleInvocations(s)
      /\ \A i \in 1..Len(s.settleArgs) :
           s.settleArgs[i] = [payload |-> s.payment[1].payload,
                              selected |-> s.payment[1].selected]
      /\ Len(s.settleArgs) =
           Len(s.settleReplies) + Len(SelectSeq(s.inFlight, IsSettleCall))
      /\ (adapter = "direct" /\ s.pc = "acquired"
            /\ Len(s.settleArgs) < MaxSettleCalls) =>
           Len(settle(s).settleArgs) = Len(s.settleArgs) + 1

C34_Witness ==
    \E r \in Requests :
      /\ adapter = "direct"
      /\ SettleInvocations(req[r]) = 2
      /\ Len(req[r].settleArgs) = 2
      /\ req[r].settleArgs[1] = req[r].settleArgs[2]
      /\ req[r].inFlight = <<"settle", "settle">>

\* --------------------------------------------------------------------- C35
\* C35: for every request that reaches settlement the settler is called with
\* exactly the payload and the selected requirement that the verifier was
\* called with for that request: what is settled is what was verified.
C35_SettlesWhatWasVerified ==
    \A r \in Requests :
      LET s == req[r] IN
      s.settleArgs # <<>> =>
        /\ Len(s.verifyArgs) = 1
        /\ VerifiedValid(s)
        /\ \A i \in 1..Len(s.settleArgs) :
             /\ s.settleArgs[i].payload = s.verifyArgs[1].payload
             /\ s.settleArgs[i].selected = s.verifyArgs[1].selected

C35_Witness ==
    \E r \in Requests :
      /\ adapter = "direct"
      /\ Len(req[r].given) = 2
      /\ req[r].given[1] # req[r].given[2]
      /\ req[r].settleArgs # <<>>
      /\ req[r].verifyArgs # <<>>
      /\ req[r].verifyArgs[1].selected = req[r].given[2]
      /\ req[r].settleArgs[1].selected = req[r].given[2]
      /\ req[r].settleArgs[1].payload = "p2"

\* --------------------------------------------------------------------- C36
\* C36: when the verifier call itself rejects (it does not answer
\* isValid=false), acquirePayment rejects with that error as it is, not as an
\* X402Error; no AcquiredPayment is created, the settler is never called, and
\* an adapter throws the error on instead of answering 402.
C36_VerifierRejects ==
    \A r \in Requests :
      LET s == req[r] IN
      (s.verification # <<>> /\ s.verification[1].kind = "reject") =>
        /\ s.acquireResult = "Error"
        /\ s.escaped = << [name |-> "Error", x402Version |-> 0,
                           message |-> "Error: " \o s.verification[1].error,
                           error |-> ErrorObject(s.verification[1].error),
                           accepts |-> <<>>, payer |-> Undefined] >>
        /\ s.raised = <<>>
        /\ s.payment = <<>>
        /\ s.settleArgs = <<>> /\ ~Occurs(s.trace, "settle")
        /\ s.pc = "done"
        /\ adapter \in Adapters =>
             /\ s.handlerCalls = 0
             /\ s.res.status = 200 /\ s.res.body = "none"
             /\ s.res.json = <<>>
             /\ Delivered(s).status # 402

C36_Witness ==
    \E r \in Requests :
      /\ adapter = "next"
      /\ req[r].verification # <<>>
      /\ req[r].verification[1].kind = "reject"
      /\ req[r].acquireResult = "Error"
      /\ req[r].pc = "done"

\* --------------------------------------------------------------------- C37
\* C37: a PaymentMiddleware built without a canRenderPaywall predicate never
\* answers a request without payload with the "no payment" sentinel:
\* acquirePayment always raises the X402Error "X-PAYMENT header is required",
\* with the requirement list it was given and no payer.
C37_NoPredicateNoSentinel ==
    \A r \in Requests :
      LET s == req[r] IN
      (s.extracted.kind = "absent" /\ s.predicate = "notasked") =>
        /\ s.acquireResult = "X402Error"
        /\ ~Occurs(s.trace, "canRenderPaywall")
        /\ Len(s.raised) = 1
        /\ s.raised[1].name = "X402Error"
        /\ s.raised[1].message = "X-PAYMENT header is required"
        /\ s.raised[1].accepts = s.given
        /\ s.raised[1].payer = Undefined
        /\ s.payment = <<>> /\ s.verifyArgs = <<>>

C37_Witness ==
    \E r \in Requests :
      /\ adapter = "direct"
      /\ req[r].extracted.kind = "absent"
      /\ req[r].predicate = "notasked"
      /\ req[r].acquireResult = "X402Error"
      /\ Len(req[r].given) = 2

\* --------------------------------------------------------------------- C38
\* C38: when a static config.resource and a resourceFromRequest function are
\* both configured the static resource wins: every requirement that
\* paymentRequirements returns has the static resource, whatever the request,
\* and resourceFromRequest is never called.
C38_StaticResourceWins ==
    (/\ adapter = "requirements" /\ mw.phase = "built"
     /\ mw.configs[1].resource \notin {Undefined, ""}
     /\ mw.configs[1].resourceFromRequest) =>
      \A i \in 1..Len(mw.calls) :
        /\ mw.calls[i].resolved = 0
        /\ \A k \in 1..Len(mw.calls[i].returned) :
             /\ mw.calls[i].returned[k].resource = mw.configs[1].resource
             /\ mw.calls[i].returned[k].resource #
                  resourceFromRequest(mw.calls[i].request)

C38_Witness ==
    /\ adapter = "requirements"
    /\ mw.configs[1].resource = "https://example.com/protected/resource"
    /\ mw.configs[1].resourceFromRequest
    /\ Len(mw.calls) = 2
    /\ mw.calls[1].request # mw.calls[2].request
    /\ mw.calls[2].returned[1].resource = "https://example.com/protected/resource"

\* ---------------------------------------------------------------- C39
\* The routes of the table forRoutes was given that cannot be built: the
\* price conversion fails or an address is malformed.
InvalidRoutes(configs) ==
    {i \in 1..Len(configs) : constructor(configs[i]).thrown # <<>>}

\* C39: forRoutes is all-or-nothing.  When any route of the table is invalid
\* it raises (the error of the first invalid route) and returns no map;
\* otherwise the map holds exactly one PaymentMiddleware per route pattern, in
\* declaration order, and all of them hold the verify and settle functions of
\* the single call of the facilitator factory.
C39_ForRoutesAllOrNothing ==
    (adapter \in RoutedAdapters /\ mw.phase # "configured") =>
        LET invalid == InvalidRoutes(mw.configs)
        IN  /\ invalid # {} =>
                /\ mw.phase = "failed"
                /\ mw.instances = <<>>
                /\ mw.thrown # <<>>
                /\ \E i \in invalid :
                      /\ \A j \in invalid : i <= j
                      /\ mw.thrown = constructor(mw.configs[i]).thrown
            /\ invalid = {} =>
                /\ mw.phase = "built"
                /\ mw.thrown = <<>>
                /\ Len(mw.instances) = Len(mw.configs)
                /\ \A i \in 1..Len(mw.configs) :
                      /\ mw.instances[i].config = mw.configs[i]
                      /\ mw.instances[i].facilitator = useFacilitatorFn(1)

\* A table whose second route is invalid was refused as a whole.
C39_Witness ==
    /\ adapter \in RoutedAdapters
    /\ mw.phase = "failed"
    /\ Len(mw.configs) = 2
    /\ InvalidRoutes(mw.configs) = {2}
    /\ mw.thrown[1].name = "InvalidAddressError"
    /\ mw.instances = <<>>

\* ---------------------------------------------------------------- C40
\* The Express middleware is at `await deferred.promise`: the payment is
\* verified, the handler has been called and has not ended the response.
ExpressAwaitsEnd(r) ==
    /\ adapter = "express"
    /\ req[r].pc = "handler"

\* The Express middleware has completed after the handler ended the response:
\* the settler was called once and has answered, or settlement was skipped for
\* a status of 400 or more, and the response went out through the original end.
ExpressCompleted(r) ==
    LET s == req[r] IN
    /\ adapter = "express"
    /\ s.pc = "done"
    /\ s.res.deferred # <<>>
    /\ s.inFlight = <<>>
    /\ \/ s.handlerStatus < 400 /\ Len(s.settleArgs) = 1
             /\ Len(s.settleReplies) = 1
       \/ s.handlerStatus >= 400 /\ s.settleArgs = <<>>
    /\ s.res.end = "original"
    /\ Len(s.res.sent) = 1

\* While the handler has not ended the response the payment is verified, the
\* settler has not been called and nothing is sent.
ExpressWaitsForHandler ==
    \A r \in Requests :
      ExpressAwaitsEnd(r) =>
        /\ req[r].payment # <<>>
        /\ req[r].res.deferred = <<>>
        /\ req[r].settleArgs = <<>>
        /\ req[r].res.sent = <<>>

\* Only the handler's ending of the response takes the middleware on.
OnlyHandlerEndResumes ==
    \A r \in Requests :
      (ExpressAwaitsEnd(r) /\ req'[r] # req[r]) =>
        /\ req'[r].res.deferred # <<>>
        /\ req'[r].res.deferred[1].body = "handler"

\* C40: in the Express adapter every request to a matched route with a
\* verified payment eventually completes, provided the handler eventually ends
\* the response and the settler eventually answers: the middleware settles or
\* skips settlement and the response is finalized.  As long as the handler has
\* not ended the response the settler is not called and the middleware does
\* not complete.
C40_ExpressCompletes ==
    /\ \A r \in Requests : ExpressAwaitsEnd(r) ~> ExpressCompleted(r)
    /\ []ExpressWaitsForHandler
    /\ [][OnlyHandlerEndResumes]_vars

\* A request whose handler ended the response with a success status and whose
\* settle call was answered has completed.
C40_Witness ==
    \E r \in Requests :
      /\ ExpressCompleted(r)
      /\ req[r].handlerStatus < 400
      /\ Len(req[r].settleReplies) = 1

====
